---------------------------- MODULE Spec2Model ----------------------------
(***************************************************************************)
(* Model of the agile-radar estimation and sprint-planning engine:         *)
(* SettingsService (weights, T-shirt tables, complexity scorer, size       *)
(* classifier), EstimationService (item store, JSON export/import) and     *)
(* PlanningService (sprints, board placements, dependencies, sprint info). *)
(*                                                                         *)
(* Conventions.  JavaScript `undefined` is the value Undefined.  Optional  *)
(* numbers (a sprint capacity) and the results of find are sequences of    *)
(* length 0 or 1; a parsed JSON value is a tagged record.  Point values    *)
(* are kept in tenths (Math.round(p * 10)), ratings are integers, weights  *)
(* are kept in tenths (1.5 is 15).  Timestamps and the display-only fields *)
(* (description, author, date, sprint geometry, zoom, grid, colours) are   *)
(* left out: no operation modelled here reads them.                        *)
(***************************************************************************)
EXTENDS Integers, Sequences, FiniteSets, TLC

VARIABLES
  estimations,       \* EstimationService.estimationsSubject.value
  sprints,           \* PlanningService board.sprints
  positions,         \* PlanningService board.positions
  dependencies,      \* PlanningService board.dependencies
  dimensionWeights,  \* SettingsService advancedSettings.dimensionWeights (tenths)
  tShirtSizesConfig, \* SettingsService advancedSettings.tShirtSizesConfig
  ids,               \* how many ids of each kind generateId has handed out
  last,              \* the last call, when a property inspects its effect or its
                     \* result: name, arguments, result; NoCall after any other
  form               \* EstimationFormComponent: estimation, formData, saveTimeout
                     \* and the edits made in it that no save has written yet

vars == <<estimations, sprints, positions, dependencies, dimensionWeights,
          tShirtSizesConfig, ids, last, form>>

Undefined == "undefined"
NoCall == [op |-> "none"]

(***************************************************************************)
(* Bounds of the model.                                                    *)
(***************************************************************************)
MaxSprints == 2   \* sprints created over a run
MaxDeps == 1      \* dependencies created over a run
MaxEstimationIds == 5 \* local ids of items handed out, the loaded ones included
MaxImportLen == 2 \* elements of one imported array

(***************************************************************************)
(* Generic helpers over sequences.                                         *)
(***************************************************************************)
Range(s) == {s[i] : i \in 1..Len(s)}

RECURSIVE SumSeq(_)
SumSeq(s) == IF s = <<>> THEN 0 ELSE Head(s) + SumSeq(Tail(s))

(***************************************************************************)
(* SettingsService: weights and the complexity scorer.                     *)
(***************************************************************************)
getDefaultDimensionWeights ==
  [complexity |-> 15, uncertainty |-> 20, risk |-> 20, size |-> 10, effort |-> 10]

\* PowBreaks[k] is the least exponent x, in millionths, for which
\* Math.round(Math.pow(377, x) * 10) >= 10 + k: the table of the step function
\* x |-> Math.round(Math.pow(377, x) * 10) on [0, 1].
PowBreaks ==
  <<
     8225, 23560, 37616, 50589, 62635, 73877, 84416, 94335, 103702, 112577, 121007, 129036,
     136699, 144029, 151054, 157798, 164282, 170526, 176547, 182361, 187980, 193418, 198687, 203795,
     208754, 213570, 218253, 222809, 227246, 231568, 235783, 239894, 243908, 247828, 251660, 255406,
     259071, 262657, 266169, 269610, 272981, 276287, 279528, 282709, 285831, 288896, 291906, 294864,
     297770, 300627, 303437, 306200, 308919, 311595, 314229, 316822, 319377, 321893, 324372, 326815,
     329223, 331597, 333938, 336248, 338526, 340773, 342991, 345181, 347342, 349476, 351583, 353664,
     355720, 357751, 359757, 361741, 363701, 365638, 367554, 369448, 371321, 373174, 375006, 376818,
     378612, 380386, 382142, 383880, 385600, 387303, 388989, 390658, 392310, 393947, 395568, 397173,
     398764, 400339, 401900, 403446, 404979, 406497, 408003, 409494, 410973, 412439, 413892, 415333,
     416761, 418178, 419583, 420976, 422358, 423728, 425088, 426436, 427774, 429101, 430418, 431725,
     433022, 434309, 435586, 436853, 438111, 439360, 440599, 441830, 443051, 444264, 445468, 446664,
     447851, 449029, 450200, 451363, 452517, 453664, 454803, 455934, 457058, 458175, 459284, 460385,
     461480, 462567, 463648, 464722, 465789, 466849, 467902, 468949, 469990, 471024, 472052, 473074,
     474089, 475099, 476102, 477099, 478091, 479077, 480057, 481031, 482000, 482963, 483921, 484873,
     485821, 486762, 487699, 488630, 489556, 490477, 491394, 492305, 493211, 494113, 495009, 495901,
     496788, 497671, 498549, 499422, 500291, 501156, 502016, 502871, 503723, 504570, 505413, 506251,
     507086, 507916, 508743, 509565, 510383, 511198, 512008, 512815, 513617, 514416, 515211, 516003,
     516790, 517574, 518355, 519132, 519905, 520675, 521441, 522204, 522963, 523719, 524472, 525221,
     525967, 526709, 527449, 528185, 528918, 529647, 530374, 531097, 531818, 532535, 533249, 533961,
     534669, 535374, 536077, 536776, 537473, 538166, 538857, 539545, 540231, 540913, 541593, 542270,
     542944, 543616, 544285, 544951, 545614, 546276, 546934, 547590, 548243, 548894, 549542, 550188,
     550832, 551473, 552111, 552747, 553381, 554012, 554641, 555268, 555892, 556514, 557134, 557752,
     558367, 558980, 559591, 560199, 560806, 561410, 562012, 562612, 563209, 563805, 564399, 564990,
     565580, 566167, 566752, 567335, 567917, 568496, 569073, 569649, 570222, 570793, 571363, 571931,
     572496, 573060, 573622, 574182, 574740, 575296, 575851, 576404, 576955, 577504, 578051, 578596,
     579140, 579682, 580223, 580761, 581298, 581833, 582367, 582898, 583428, 583957, 584484, 585009,
     585532, 586054, 586574, 587093, 587610, 588126, 588640, 589152, 589663, 590172, 590680, 591186,
     591691, 592194, 592696, 593196, 593695, 594192, 594688, 595182, 595675, 596166, 596656, 597145,
     597632, 598118, 598602, 599085, 599567, 600047, 600526, 601004, 601480, 601955, 602428, 602900,
     603371, 603841, 604309, 604776, 605242, 605706, 606169, 606631, 607092, 607551, 608009, 608466,
     608921, 609376, 609829, 610281, 610732, 611181, 611629, 612077, 612523, 612967, 613411, 613853,
     614295, 614735, 615174, 615612, 616048, 616484, 616918, 617352, 617784, 618215, 618645, 619074,
     619502, 619929, 620354, 620779, 621202, 621625, 622046, 622467, 622886, 623304, 623722, 624138,
     624553, 624967, 625380, 625793, 626204, 626614, 627023, 627431, 627838, 628245, 628650, 629054,
     629457, 629860, 630261, 630661, 631061, 631459, 631857, 632254, 632649, 633044, 633438, 633831,
     634223, 634614, 635004, 635393, 635782, 636169, 636556, 636942, 637327, 637711, 638094, 638476,
     638857, 639238, 639618, 639996, 640374, 640751, 641128, 641503, 641878, 642251, 642624, 642997,
     643368, 643738, 644108, 644477, 644845, 645212, 645579, 645944, 646309, 646673, 647037, 647399,
     647761, 648122, 648482, 648841, 649200, 649558, 649915, 650271, 650627, 650982, 651336, 651690,
     652042, 652394, 652745, 653096, 653445, 653794, 654143, 654490, 654837, 655183, 655529, 655873,
     656218, 656561, 656903, 657245, 657587, 657927, 658267, 658606, 658945, 659283, 659620, 659956,
     660292, 660627, 660962, 661295, 661628, 661961, 662293, 662624, 662954, 663284, 663614, 663942,
     664270, 664597, 664924, 665250, 665576, 665900, 666225, 666548, 666871, 667193, 667515, 667836,
     668157, 668477, 668796, 669114, 669433, 669750, 670067, 670383, 670699, 671014, 671328, 671642,
     671956, 672268, 672581, 672892, 673203, 673514, 673823, 674133, 674441, 674750, 675057, 675364,
     675671, 675977, 676282, 676587, 676891, 677195, 677498, 677801, 678103, 678404, 678705, 679006,
     679306, 679605, 679904, 680203, 680500, 680798, 681094, 681391, 681686, 681982, 682276, 682571,
     682864, 683157, 683450, 683742, 684034, 684325, 684616, 684906, 685195, 685485, 685773, 686061,
     686349, 686636, 686923, 687209, 687495, 687780, 688065, 688349, 688633, 688916, 689199, 689481,
     689763, 690045, 690326, 690606, 690886, 691166, 691445, 691723, 692002, 692279, 692556, 692833,
     693110, 693386, 693661, 693936, 694210, 694485, 694758, 695031, 695304, 695577, 695848, 696120,
     696391, 696661, 696932, 697201, 697471, 697739, 698008, 698276, 698543, 698811, 699077, 699344,
     699610, 699875, 700140, 700405, 700669, 700933, 701196, 701459, 701722, 701984, 702246, 702507,
     702768, 703028, 703289, 703548, 703808, 704067, 704325, 704583, 704841, 705098, 705355, 705612,
     705868, 706124, 706379, 706634, 706889, 707143, 707397, 707651, 707904, 708156, 708409, 708661,
     708912, 709164, 709414, 709665, 709915, 710165, 710414, 710663, 710912, 711160, 711408, 711655,
     711903, 712149, 712396, 712642, 712888, 713133, 713378, 713623, 713867, 714111, 714355, 714598,
     714841, 715083, 715325, 715567, 715809, 716050, 716291, 716531, 716771, 717011, 717251, 717490,
     717728, 717967, 718205, 718443, 718680, 718917, 719154, 719390, 719627, 719862, 720098, 720333,
     720568, 720802, 721036, 721270, 721503, 721737, 721969, 722202, 722434, 722666, 722898, 723129,
     723360, 723590, 723821, 724051, 724280, 724510, 724739, 724967, 725196, 725424, 725652, 725879,
     726106, 726333, 726560, 726786, 727012, 727238, 727463, 727688, 727913, 728137, 728361, 728585,
     728809, 729032, 729255, 729478, 729700, 729922, 730144, 730366, 730587, 730808, 731028, 731249,
     731469, 731689, 731908, 732127, 732346, 732565, 732783, 733001, 733219, 733437, 733654, 733871,
     734087, 734304, 734520, 734736, 734951, 735167, 735382, 735596, 735811, 736025, 736239, 736453,
     736666, 736879, 737092, 737305, 737517, 737729, 737941, 738152, 738363, 738574, 738785, 738996,
     739206, 739416, 739625, 739835, 740044, 740253, 740461, 740670, 740878, 741086, 741293, 741501,
     741708, 741915, 742121, 742328, 742534, 742739, 742945, 743150, 743355, 743560, 743765, 743969,
     744173, 744377, 744581, 744784, 744987, 745190, 745393, 745595, 745797, 745999, 746201, 746402,
     746603, 746804, 747005, 747205, 747405, 747605, 747805, 748004, 748204, 748403, 748602, 748800,
     748998, 749197, 749394, 749592, 749789, 749987, 750183, 750380, 750577, 750773, 750969, 751165,
     751360, 751556, 751751, 751946, 752140, 752335, 752529, 752723, 752917, 753110, 753303, 753497,
     753689, 753882, 754074, 754267, 754459, 754650, 754842, 755033, 755224, 755415, 755606, 755797,
     755987, 756177, 756367, 756556, 756746, 756935, 757124, 757313, 757501, 757690, 757878, 758066,
     758253, 758441, 758628, 758815, 759002, 759189, 759375, 759562, 759748, 759933, 760119, 760305,
     760490, 760675, 760860, 761044, 761229, 761413, 761597, 761781, 761964, 762148, 762331, 762514,
     762697, 762880, 763062, 763244, 763426, 763608, 763790, 763971, 764152, 764334, 764514, 764695,
     764876, 765056, 765236, 765416, 765596, 765775, 765954, 766134, 766313, 766491, 766670, 766848,
     767026, 767204, 767382, 767560, 767737, 767915, 768092, 768269, 768445, 768622, 768798, 768974,
     769150, 769326, 769502, 769677, 769852, 770027, 770202, 770377, 770551, 770726, 770900, 771074,
     771248, 771421, 771595, 771768, 771941, 772114, 772286, 772459, 772631, 772804, 772976, 773147,
     773319, 773491, 773662, 773833, 774004, 774175, 774345, 774516, 774686, 774856, 775026, 775196,
     775365, 775535, 775704, 775873, 776042, 776211, 776379, 776548, 776716, 776884, 777052, 777220,
     777387, 777555, 777722, 777889, 778056, 778223, 778389, 778556, 778722, 778888, 779054, 779220,
     779385, 779551, 779716, 779881, 780046, 780211, 780375, 780540, 780704, 780868, 781032, 781196,
     781360, 781523, 781687, 781850, 782013, 782176, 782338, 782501, 782663, 782826, 782988, 783150,
     783311, 783473, 783634, 783796, 783957, 784118, 784279, 784439, 784600, 784760, 784921, 785081,
     785241, 785400, 785560, 785720, 785879, 786038, 786197, 786356, 786515, 786673, 786832, 786990,
     787148, 787306, 787464, 787622, 787779, 787937, 788094, 788251, 788408, 788565, 788721, 788878,
     789034, 789190, 789347, 789502, 789658, 789814, 789969, 790125, 790280, 790435, 790590, 790745,
     790899, 791054, 791208, 791363, 791517, 791671, 791824, 791978, 792132, 792285, 792438, 792591,
     792744, 792897, 793050, 793202, 793355, 793507, 793659, 793811, 793963, 794115, 794266, 794418,
     794569, 794720, 794871, 795022, 795173, 795324, 795474, 795625, 795775, 795925, 796075, 796225,
     796374, 796524, 796673, 796823, 796972, 797121, 797270, 797419, 797567, 797716, 797864, 798013,
     798161, 798309, 798457, 798604, 798752, 798899, 799047, 799194, 799341, 799488, 799635, 799782,
     799928, 800075, 800221, 800367, 800513, 800659, 800805, 800951, 801096, 801242, 801387, 801532,
     801677, 801822, 801967, 802112, 802256, 802401, 802545, 802689, 802833, 802977, 803121, 803265,
     803408, 803552, 803695, 803838, 803982, 804125, 804267, 804410, 804553, 804695, 804838, 804980,
     805122, 805264, 805406, 805548, 805689, 805831, 805972, 806114, 806255, 806396, 806537, 806678,
     806818, 806959, 807099, 807240, 807380, 807520, 807660, 807800, 807940, 808079, 808219, 808358,
     808498, 808637, 808776, 808915, 809054, 809193, 809331, 809470, 809608, 809746, 809885, 810023,
     810161, 810298, 810436, 810574, 810711, 810849, 810986, 811123, 811260, 811397, 811534, 811671,
     811807, 811944, 812080, 812216, 812352, 812489, 812624, 812760, 812896, 813032, 813167, 813303,
     813438, 813573, 813708, 813843, 813978, 814113, 814247, 814382, 814516, 814651, 814785, 814919,
     815053, 815187, 815321, 815454, 815588, 815721, 815855, 815988, 816121, 816254, 816387, 816520,
     816653, 816785, 816918, 817050, 817183, 817315, 817447, 817579, 817711, 817843, 817974, 818106,
     818237, 818369, 818500, 818631, 818762, 818893, 819024, 819155, 819286, 819416, 819547, 819677,
     819807, 819937, 820067, 820197, 820327, 820457, 820587, 820716, 820846, 820975, 821104, 821234,
     821363, 821492, 821621, 821749, 821878, 822007, 822135, 822263, 822392, 822520, 822648, 822776,
     822904, 823032, 823159, 823287, 823415, 823542, 823669, 823797, 823924, 824051, 824178, 824304,
     824431, 824558, 824684, 824811, 824937, 825063, 825190, 825316, 825442, 825568, 825693, 825819,
     825945, 826070, 826196, 826321, 826446, 826571, 826696, 826821, 826946, 827071, 827196, 827320,
     827445, 827569, 827694, 827818, 827942, 828066, 828190, 828314, 828438, 828561, 828685, 828808,
     828932, 829055, 829178, 829301, 829424, 829547, 829670, 829793, 829916, 830038, 830161, 830283,
     830406, 830528, 830650, 830772, 830894, 831016, 831138, 831259, 831381, 831503, 831624, 831745,
     831867, 831988, 832109, 832230, 832351, 832472, 832592, 832713, 832834, 832954, 833075, 833195,
     833315, 833435, 833555, 833675, 833795, 833915, 834035, 834154, 834274, 834393, 834513, 834632,
     834751, 834870, 834989, 835108, 835227, 835346, 835465, 835583, 835702, 835820, 835939, 836057,
     836175, 836293, 836411, 836529, 836647, 836765, 836883, 837000, 837118, 837236, 837353, 837470,
     837587, 837705, 837822, 837939, 838056, 838172, 838289, 838406, 838522, 838639, 838755, 838872,
     838988, 839104, 839220, 839336, 839452, 839568, 839684, 839799, 839915, 840031, 840146, 840261,
     840377, 840492, 840607, 840722, 840837, 840952, 841067, 841182, 841296, 841411, 841525, 841640,
     841754, 841868, 841983, 842097, 842211, 842325, 842439, 842553, 842666, 842780, 842894, 843007,
     843120, 843234, 843347, 843460, 843573, 843687, 843800, 843912, 844025, 844138, 844251, 844363,
     844476, 844588, 844701, 844813, 844925, 845037, 845149, 845261, 845373, 845485, 845597, 845709,
     845820, 845932, 846043, 846155, 846266, 846377, 846489, 846600, 846711, 846822, 846933, 847044,
     847154, 847265, 847376, 847486, 847597, 847707, 847817, 847928, 848038, 848148, 848258, 848368,
     848478, 848588, 848697, 848807, 848917, 849026, 849136, 849245, 849354, 849463, 849573, 849682,
     849791, 849900, 850009, 850118, 850226, 850335, 850444, 850552, 850661, 850769, 850877, 850986,
     851094, 851202, 851310, 851418, 851526, 851634, 851742, 851849, 851957, 852064, 852172, 852279,
     852387, 852494, 852601, 852708, 852816, 852923, 853030, 853136, 853243, 853350, 853457, 853563,
     853670, 853776, 853883, 853989, 854095, 854202, 854308, 854414, 854520, 854626, 854732, 854838,
     854943, 855049, 855155, 855260, 855366, 855471, 855576, 855682, 855787, 855892, 855997, 856102,
     856207, 856312, 856417, 856522, 856626, 856731, 856836, 856940, 857045, 857149, 857253, 857357,
     857462, 857566, 857670, 857774, 857878, 857982, 858085, 858189, 858293, 858396, 858500, 858603,
     858707, 858810, 858914, 859017, 859120, 859223, 859326, 859429, 859532, 859635, 859738, 859840,
     859943, 860046, 860148, 860251, 860353, 860455, 860558, 860660, 860762, 860864, 860966, 861068,
     861170, 861272, 861374, 861475, 861577, 861679, 861780, 861882, 861983, 862085, 862186, 862287,
     862388, 862489, 862590, 862691, 862792, 862893, 862994, 863095, 863196, 863296, 863397, 863497,
     863598, 863698, 863799, 863899, 863999, 864099, 864199, 864299, 864399, 864499, 864599, 864699,
     864799, 864898, 864998, 865098, 865197, 865296, 865396, 865495, 865594, 865694, 865793, 865892,
     865991, 866090, 866189, 866288, 866387, 866485, 866584, 866683, 866781, 866880, 866978, 867077,
     867175, 867273, 867372, 867470, 867568, 867666, 867764, 867862, 867960, 868058, 868155, 868253,
     868351, 868448, 868546, 868643, 868741, 868838, 868936, 869033, 869130, 869227, 869324, 869421,
     869518, 869615, 869712, 869809, 869906, 870002, 870099, 870196, 870292, 870389, 870485, 870582,
     870678, 870774, 870870, 870967, 871063, 871159, 871255, 871351, 871447, 871542, 871638, 871734,
     871830, 871925, 872021, 872116, 872212, 872307, 872402, 872498, 872593, 872688, 872783, 872878,
     872973, 873068, 873163, 873258, 873353, 873448, 873542, 873637, 873732, 873826, 873921, 874015,
     874109, 874204, 874298, 874392, 874486, 874581, 874675, 874769, 874863, 874957, 875050, 875144,
     875238, 875332, 875425, 875519, 875612, 875706, 875799, 875893, 875986, 876079, 876173, 876266,
     876359, 876452, 876545, 876638, 876731, 876824, 876917, 877009, 877102, 877195, 877287, 877380,
     877473, 877565, 877657, 877750, 877842, 877934, 878027, 878119, 878211, 878303, 878395, 878487,
     878579, 878671, 878763, 878854, 878946, 879038, 879129, 879221, 879312, 879404, 879495, 879587,
     879678, 879769, 879860, 879952, 880043, 880134, 880225, 880316, 880407, 880498, 880588, 880679,
     880770, 880861, 880951, 881042, 881132, 881223, 881313, 881404, 881494, 881584, 881674, 881765,
     881855, 881945, 882035, 882125, 882215, 882305, 882395, 882484, 882574, 882664, 882754, 882843,
     882933, 883022, 883112, 883201, 883291, 883380, 883469, 883558, 883648, 883737, 883826, 883915,
     884004, 884093, 884182, 884271, 884359, 884448, 884537, 884626, 884714, 884803, 884891, 884980,
     885068, 885157, 885245, 885333, 885422, 885510, 885598, 885686, 885774, 885862, 885950, 886038,
     886126, 886214, 886302, 886389, 886477, 886565, 886652, 886740, 886827, 886915, 887002, 887090,
     887177, 887264, 887352, 887439, 887526, 887613, 887700, 887787, 887874, 887961, 888048, 888135,
     888222, 888308, 888395, 888482, 888568, 888655, 888742, 888828, 888915, 889001, 889087, 889174,
     889260, 889346, 889432, 889518, 889605, 889691, 889777, 889863, 889948, 890034, 890120, 890206,
     890292, 890377, 890463, 890549, 890634, 890720, 890805, 890891, 890976, 891061, 891147, 891232,
     891317, 891402, 891488, 891573, 891658, 891743, 891828, 891913, 891997, 892082, 892167, 892252,
     892337, 892421, 892506, 892590, 892675, 892759, 892844, 892928, 893013, 893097, 893181, 893266,
     893350, 893434, 893518, 893602, 893686, 893770, 893854, 893938, 894022, 894106, 894189, 894273,
     894357, 894441, 894524, 894608, 894691, 894775, 894858, 894942, 895025, 895108, 895192, 895275,
     895358, 895441, 895524, 895607, 895690, 895773, 895856, 895939, 896022, 896105, 896188, 896271,
     896353, 896436, 896519, 896601, 896684, 896766, 896849, 896931, 897014, 897096, 897178, 897260,
     897343, 897425, 897507, 897589, 897671, 897753, 897835, 897917, 897999, 898081, 898163, 898245,
     898326, 898408, 898490, 898571, 898653, 898734, 898816, 898897, 898979, 899060, 899142, 899223,
     899304, 899385, 899467, 899548, 899629, 899710, 899791, 899872, 899953, 900034, 900115, 900196,
     900277, 900357, 900438, 900519, 900599, 900680, 900761, 900841, 900922, 901002, 901083, 901163,
     901243, 901324, 901404, 901484, 901564, 901644, 901725, 901805, 901885, 901965, 902045, 902125,
     902204, 902284, 902364, 902444, 902524, 902603, 902683, 902763, 902842, 902922, 903001, 903081,
     903160, 903240, 903319, 903398, 903478, 903557, 903636, 903715, 903794, 903873, 903953, 904032,
     904111, 904190, 904268, 904347, 904426, 904505, 904584, 904662, 904741, 904820, 904898, 904977,
     905056, 905134, 905213, 905291, 905369, 905448, 905526, 905604, 905683, 905761, 905839, 905917,
     905995, 906073, 906151, 906229, 906307, 906385, 906463, 906541, 906619, 906697, 906775, 906852,
     906930, 907008, 907085, 907163, 907240, 907318, 907395, 907473, 907550, 907627, 907705, 907782,
     907859, 907937, 908014, 908091, 908168, 908245, 908322, 908399, 908476, 908553, 908630, 908707,
     908784, 908860, 908937, 909014, 909091, 909167, 909244, 909320, 909397, 909474, 909550, 909626,
     909703, 909779, 909856, 909932, 910008, 910084, 910161, 910237, 910313, 910389, 910465, 910541,
     910617, 910693, 910769, 910845, 910921, 910997, 911072, 911148, 911224, 911300, 911375, 911451,
     911527, 911602, 911678, 911753, 911829, 911904, 911979, 912055, 912130, 912205, 912281, 912356,
     912431, 912506, 912581, 912656, 912731, 912806, 912881, 912956, 913031, 913106, 913181, 913256,
     913331, 913405, 913480, 913555, 913629, 913704, 913779, 913853, 913928, 914002, 914077, 914151,
     914226, 914300, 914374, 914448, 914523, 914597, 914671, 914745, 914819, 914894, 914968, 915042,
     915116, 915190, 915264, 915337, 915411, 915485, 915559, 915633, 915706, 915780, 915854, 915928,
     916001, 916075, 916148, 916222, 916295, 916369, 916442, 916516, 916589, 916662, 916735, 916809,
     916882, 916955, 917028, 917101, 917175, 917248, 917321, 917394, 917467, 917540, 917613, 917685,
     917758, 917831, 917904, 917977, 918049, 918122, 918195, 918267, 918340, 918412, 918485, 918557,
     918630, 918702, 918775, 918847, 918920, 918992, 919064, 919136, 919209, 919281, 919353, 919425,
     919497, 919569, 919641, 919713, 919785, 919857, 919929, 920001, 920073, 920145, 920217, 920288,
     920360, 920432, 920503, 920575, 920647, 920718, 920790, 920861, 920933, 921004, 921076, 921147,
     921218, 921290, 921361, 921432, 921504, 921575, 921646, 921717, 921788, 921859, 921930, 922001,
     922072, 922143, 922214, 922285, 922356, 922427, 922498, 922569, 922639, 922710, 922781, 922852,
     922922, 922993, 923063, 923134, 923205, 923275, 923346, 923416, 923486, 923557, 923627, 923697,
     923768, 923838, 923908, 923978, 924049, 924119, 924189, 924259, 924329, 924399, 924469, 924539,
     924609, 924679, 924749, 924819, 924889, 924958, 925028, 925098, 925168, 925237, 925307, 925377,
     925446, 925516, 925585, 925655, 925724, 925794, 925863, 925933, 926002, 926071, 926141, 926210,
     926279, 926348, 926417, 926487, 926556, 926625, 926694, 926763, 926832, 926901, 926970, 927039,
     927108, 927177, 927246, 927315, 927383, 927452, 927521, 927590, 927658, 927727, 927796, 927864,
     927933, 928001, 928070, 928138, 928207, 928275, 928344, 928412, 928480, 928549, 928617, 928685,
     928754, 928822, 928890, 928958, 929026, 929094, 929162, 929230, 929299, 929367, 929434, 929502,
     929570, 929638, 929706, 929774, 929842, 929910, 929977, 930045, 930113, 930180, 930248, 930316,
     930383, 930451, 930518, 930586, 930653, 930721, 930788, 930856, 930923, 930990, 931058, 931125,
     931192, 931259, 931327, 931394, 931461, 931528, 931595, 931662, 931729, 931796, 931863, 931930,
     931997, 932064, 932131, 932198, 932265, 932332, 932398, 932465, 932532, 932599, 932665, 932732,
     932799, 932865, 932932, 932998, 933065, 933131, 933198, 933264, 933331, 933397, 933463, 933530,
     933596, 933662, 933729, 933795, 933861, 933927, 933993, 934060, 934126, 934192, 934258, 934324,
     934390, 934456, 934522, 934588, 934654, 934719, 934785, 934851, 934917, 934983, 935048, 935114,
     935180, 935246, 935311, 935377, 935442, 935508, 935573, 935639, 935704, 935770, 935835, 935901,
     935966, 936032, 936097, 936162, 936227, 936293, 936358, 936423, 936488, 936554, 936619, 936684,
     936749, 936814, 936879, 936944, 937009, 937074, 937139, 937204, 937269, 937334, 937398, 937463,
     937528, 937593, 937657, 937722, 937787, 937852, 937916, 937981, 938045, 938110, 938174, 938239,
     938303, 938368, 938432, 938497, 938561, 938626, 938690, 938754, 938818, 938883, 938947, 939011,
     939075, 939140, 939204, 939268, 939332, 939396, 939460, 939524, 939588, 939652, 939716, 939780,
     939844, 939908, 939972, 940035, 940099, 940163, 940227, 940290, 940354, 940418, 940481, 940545,
     940609, 940672, 940736, 940799, 940863, 940926, 940990, 941053, 941117, 941180, 941244, 941307,
     941370, 941433, 941497, 941560, 941623, 941686, 941750, 941813, 941876, 941939, 942002, 942065,
     942128, 942191, 942254, 942317, 942380, 942443, 942506, 942569, 942632, 942695, 942757, 942820,
     942883, 942946, 943008, 943071, 943134, 943196, 943259, 943322, 943384, 943447, 943509, 943572,
     943634, 943697, 943759, 943821, 943884, 943946, 944009, 944071, 944133, 944195, 944258, 944320,
     944382, 944444, 944506, 944569, 944631, 944693, 944755, 944817, 944879, 944941, 945003, 945065,
     945127, 945189, 945251, 945312, 945374, 945436, 945498, 945560, 945621, 945683, 945745, 945806,
     945868, 945930, 945991, 946053, 946115, 946176, 946238, 946299, 946361, 946422, 946483, 946545,
     946606, 946668, 946729, 946790, 946852, 946913, 946974, 947035, 947097, 947158, 947219, 947280,
     947341, 947402, 947463, 947524, 947585, 947646, 947707, 947768, 947829, 947890, 947951, 948012,
     948073, 948134, 948195, 948255, 948316, 948377, 948438, 948498, 948559, 948620, 948680, 948741,
     948801, 948862, 948923, 948983, 949044, 949104, 949165, 949225, 949285, 949346, 949406, 949467,
     949527, 949587, 949647, 949708, 949768, 949828, 949888, 949949, 950009, 950069, 950129, 950189,
     950249, 950309, 950369, 950429, 950489, 950549, 950609, 950669, 950729, 950789, 950849, 950909,
     950968, 951028, 951088, 951148, 951208, 951267, 951327, 951387, 951446, 951506, 951565, 951625,
     951685, 951744, 951804, 951863, 951923, 951982, 952042, 952101, 952160, 952220, 952279, 952338,
     952398, 952457, 952516, 952576, 952635, 952694, 952753, 952812, 952872, 952931, 952990, 953049,
     953108, 953167, 953226, 953285, 953344, 953403, 953462, 953521, 953580, 953639, 953697, 953756,
     953815, 953874, 953933, 953991, 954050, 954109, 954168, 954226, 954285, 954344, 954402, 954461,
     954519, 954578, 954636, 954695, 954753, 954812, 954870, 954929, 954987, 955046, 955104, 955162,
     955221, 955279, 955337, 955395, 955454, 955512, 955570, 955628, 955686, 955745, 955803, 955861,
     955919, 955977, 956035, 956093, 956151, 956209, 956267, 956325, 956383, 956441, 956499, 956557,
     956614, 956672, 956730, 956788, 956846, 956903, 956961, 957019, 957077, 957134, 957192, 957249,
     957307, 957365, 957422, 957480, 957537, 957595, 957652, 957710, 957767, 957825, 957882, 957940,
     957997, 958054, 958112, 958169, 958226, 958283, 958341, 958398, 958455, 958512, 958570, 958627,
     958684, 958741, 958798, 958855, 958912, 958969, 959026, 959083, 959140, 959197, 959254, 959311,
     959368, 959425, 959482, 959539, 959596, 959652, 959709, 959766, 959823, 959879, 959936, 959993,
     960050, 960106, 960163, 960219, 960276, 960333, 960389, 960446, 960502, 960559, 960615, 960672,
     960728, 960785, 960841, 960897, 960954, 961010, 961067, 961123, 961179, 961235, 961292, 961348,
     961404, 961460, 961517, 961573, 961629, 961685, 961741, 961797, 961853, 961909, 961965, 962021,
     962077, 962133, 962189, 962245, 962301, 962357, 962413, 962469, 962525, 962581, 962636, 962692,
     962748, 962804, 962860, 962915, 962971, 963027, 963082, 963138, 963194, 963249, 963305, 963360,
     963416, 963472, 963527, 963583, 963638, 963694, 963749, 963804, 963860, 963915, 963971, 964026,
     964081, 964137, 964192, 964247, 964302, 964358, 964413, 964468, 964523, 964579, 964634, 964689,
     964744, 964799, 964854, 964909, 964964, 965019, 965074, 965129, 965184, 965239, 965294, 965349,
     965404, 965459, 965514, 965569, 965624, 965678, 965733, 965788, 965843, 965897, 965952, 966007,
     966062, 966116, 966171, 966226, 966280, 966335, 966389, 966444, 966498, 966553, 966608, 966662,
     966717, 966771, 966825, 966880, 966934, 966989, 967043, 967097, 967152, 967206, 967260, 967315,
     967369, 967423, 967477, 967532, 967586, 967640, 967694, 967748, 967803, 967857, 967911, 967965,
     968019, 968073, 968127, 968181, 968235, 968289, 968343, 968397, 968451, 968505, 968559, 968612,
     968666, 968720, 968774, 968828, 968882, 968935, 968989, 969043, 969097, 969150, 969204, 969258,
     969311, 969365, 969418, 969472, 969526, 969579, 969633, 969686, 969740, 969793, 969847, 969900,
     969954, 970007, 970061, 970114, 970167, 970221, 970274, 970327, 970381, 970434, 970487, 970540,
     970594, 970647, 970700, 970753, 970807, 970860, 970913, 970966, 971019, 971072, 971125, 971178,
     971231, 971284, 971337, 971390, 971443, 971496, 971549, 971602, 971655, 971708, 971761, 971814,
     971867, 971919, 971972, 972025, 972078, 972131, 972183, 972236, 972289, 972341, 972394, 972447,
     972499, 972552, 972605, 972657, 972710, 972762, 972815, 972867, 972920, 972972, 973025, 973077,
     973130, 973182, 973235, 973287, 973339, 973392, 973444, 973497, 973549, 973601, 973653, 973706,
     973758, 973810, 973862, 973915, 973967, 974019, 974071, 974123, 974175, 974228, 974280, 974332,
     974384, 974436, 974488, 974540, 974592, 974644, 974696, 974748, 974800, 974852, 974903, 974955,
     975007, 975059, 975111, 975163, 975215, 975266, 975318, 975370, 975422, 975473, 975525, 975577,
     975628, 975680, 975732, 975783, 975835, 975887, 975938, 975990, 976041, 976093, 976144, 976196,
     976247, 976299, 976350, 976402, 976453, 976505, 976556, 976607, 976659, 976710, 976761, 976813,
     976864, 976915, 976966, 977018, 977069, 977120, 977171, 977223, 977274, 977325, 977376, 977427,
     977478, 977529, 977580, 977632, 977683, 977734, 977785, 977836, 977887, 977938, 977989, 978040,
     978090, 978141, 978192, 978243, 978294, 978345, 978396, 978447, 978497, 978548, 978599, 978650,
     978700, 978751, 978802, 978853, 978903, 978954, 979005, 979055, 979106, 979156, 979207, 979258,
     979308, 979359, 979409, 979460, 979510, 979561, 979611, 979662, 979712, 979762, 979813, 979863,
     979914, 979964, 980014, 980065, 980115, 980165, 980216, 980266, 980316, 980366, 980417, 980467,
     980517, 980567, 980617, 980668, 980718, 980768, 980818, 980868, 980918, 980968, 981018, 981068,
     981118, 981168, 981218, 981268, 981318, 981368, 981418, 981468, 981518, 981568, 981618, 981668,
     981717, 981767, 981817, 981867, 981917, 981966, 982016, 982066, 982116, 982165, 982215, 982265,
     982314, 982364, 982414, 982463, 982513, 982562, 982612, 982662, 982711, 982761, 982810, 982860,
     982909, 982959, 983008, 983058, 983107, 983156, 983206, 983255, 983305, 983354, 983403, 983453,
     983502, 983551, 983601, 983650, 983699, 983748, 983798, 983847, 983896, 983945, 983994, 984044,
     984093, 984142, 984191, 984240, 984289, 984338, 984387, 984436, 984485, 984534, 984583, 984632,
     984681, 984730, 984779, 984828, 984877, 984926, 984975, 985024, 985073, 985121, 985170, 985219,
     985268, 985317, 985365, 985414, 985463, 985512, 985560, 985609, 985658, 985707, 985755, 985804,
     985852, 985901, 985950, 985998, 986047, 986095, 986144, 986193, 986241, 986290, 986338, 986387,
     986435, 986483, 986532, 986580, 986629, 986677, 986726, 986774, 986822, 986871, 986919, 986967,
     987016, 987064, 987112, 987160, 987209, 987257, 987305, 987353, 987401, 987450, 987498, 987546,
     987594, 987642, 987690, 987738, 987786, 987835, 987883, 987931, 987979, 988027, 988075, 988123,
     988171, 988219, 988267, 988314, 988362, 988410, 988458, 988506, 988554, 988602, 988650, 988697,
     988745, 988793, 988841, 988889, 988936, 988984, 989032, 989079, 989127, 989175, 989223, 989270,
     989318, 989365, 989413, 989461, 989508, 989556, 989603, 989651, 989699, 989746, 989794, 989841,
     989889, 989936, 989983, 990031, 990078, 990126, 990173, 990221, 990268, 990315, 990363, 990410,
     990457, 990505, 990552, 990599, 990646, 990694, 990741, 990788, 990835, 990883, 990930, 990977,
     991024, 991071, 991118, 991166, 991213, 991260, 991307, 991354, 991401, 991448, 991495, 991542,
     991589, 991636, 991683, 991730, 991777, 991824, 991871, 991918, 991965, 992012, 992059, 992105,
     992152, 992199, 992246, 992293, 992339, 992386, 992433, 992480, 992527, 992573, 992620, 992667,
     992713, 992760, 992807, 992853, 992900, 992947, 992993, 993040, 993087, 993133, 993180, 993226,
     993273, 993319, 993366, 993412, 993459, 993505, 993552, 993598, 993645, 993691, 993737, 993784,
     993830, 993877, 993923, 993969, 994016, 994062, 994108, 994155, 994201, 994247, 994293, 994340,
     994386, 994432, 994478, 994525, 994571, 994617, 994663, 994709, 994755, 994801, 994848, 994894,
     994940, 994986, 995032, 995078, 995124, 995170, 995216, 995262, 995308, 995354, 995400, 995446,
     995492, 995538, 995584, 995629, 995675, 995721, 995767, 995813, 995859, 995905, 995950, 995996,
     996042, 996088, 996133, 996179, 996225, 996271, 996316, 996362, 996408, 996453, 996499, 996545,
     996590, 996636, 996682, 996727, 996773, 996818, 996864, 996909, 996955, 997001, 997046, 997092,
     997137, 997182, 997228, 997273, 997319, 997364, 997410, 997455, 997500, 997546, 997591, 997637,
     997682, 997727, 997773, 997818, 997863, 997908, 997954, 997999, 998044, 998089, 998135, 998180,
     998225, 998270, 998315, 998361, 998406, 998451, 998496, 998541, 998586, 998631, 998676, 998721,
     998766, 998811, 998856, 998901, 998946, 998991, 999036, 999081, 999126, 999171, 999216, 999261,
     999306, 999351, 999396, 999441, 999486, 999530, 999575, 999620, 999665, 999710, 999754, 999799,
     999844, 999889, 999933, 999978  >>

\* index of the last break <= x among PowBreaks[lo..hi], lo - 1 when there is none
RECURSIVE LastBreak(_, _, _)
LastBreak(x, lo, hi) ==
  IF lo > hi THEN lo - 1
  ELSE LET mid == (lo + hi) \div 2
       IN  IF PowBreaks[mid] <= x THEN LastBreak(x, mid + 1, hi)
           ELSE LastBreak(x, lo, mid - 1)

\* Math.round(Math.pow(377, x) * 10) for the exponent x given in millionths
Pow377Tenths(xMillionths) == 10 + LastBreak(xMillionths, 1, Len(PowBreaks))

\* the value NaN of a JavaScript number, outside the scale of the points
NaN == -2

\* mutant: the complexity term is subtracted from the weighted sum
calculateComplexityPointsMinus(e) ==
  LET w == dimensionWeights
      totalWeight == w.complexity + w.uncertainty + w.risk + w.size + w.effort
      weightedSum == e.uncertainty * w.uncertainty - e.complexity * w.complexity
                     + e.risk * w.risk + e.size * w.size + e.effort * w.effort
  IN  IF totalWeight = 0 THEN NaN
      ELSE IF weightedSum < 0 THEN 10
      ELSE Pow377Tenths((weightedSum * 10000) \div totalWeight)

\* calculateComplexityPoints, in tenths of a point; with a total weight of 0
\* the weighted average is 0 / 0
calculateComplexityPoints(e) ==
  LET w == dimensionWeights
      totalWeight == w.complexity + w.uncertainty + w.risk + w.size + w.effort
      weightedSum == e.complexity * w.complexity + e.uncertainty * w.uncertainty
                     + e.risk * w.risk + e.size * w.size + e.effort * w.effort
  IN  IF totalWeight = 0 THEN NaN
      \* normalized = weightedSum / totalWeight / 100, in millionths
      ELSE Pow377Tenths((weightedSum * 10000) \div totalWeight)

\* Math.ceil of a value kept in tenths
Ceil(tenths) == (tenths + 9) \div 10

\* Math.ceil(this.settingsService.calculateComplexityPoints(item))
getComplexityPointsCeil(e) == Ceil(calculateComplexityPoints(e))

(***************************************************************************)
(* EstimationService: the item store.                                      *)
(***************************************************************************)
\* An Estimation of models/estimation.model.ts
Estimation(id, uuid, name, type, parentFeatureId, complexityMode, ratings) ==
  [id |-> id, uuid |-> uuid, name |-> name, type |-> type,
   parentFeatureId |-> parentFeatureId, complexityMode |-> complexityMode,
   complexity |-> ratings[1], uncertainty |-> ratings[2], risk |-> ratings[3],
   size |-> ratings[4], effort |-> ratings[5]]

\* Array.prototype.find on the store: a sequence of length 0 (undefined) or 1
getEstimation(id) ==
  LET found == SelectSeq(estimations, LAMBDA e : e.id = id)
  IN  IF found = <<>> THEN <<>> ELSE <<Head(found)>>

getUserStoriesForFeature(featureId) ==
  SelectSeq(estimations,
            LAMBDA e : e.type = "user-story" /\ e.parentFeatureId = featureId)

\* EstimationListComponent.getAllChildUserStories: every child, unfiltered
getAllChildUserStories(featureId) ==
  SelectSeq(estimations,
            LAMBDA e : e.type = "user-story" /\ e.parentFeatureId = featureId)

\* mutant: the raw scores are summed and the sum is ceilinged once
getFeatureTotalPointsCeilOfSum(feature) ==
  LET mode == IF feature.complexityMode = Undefined THEN "feature-only"
              ELSE feature.complexityMode
      children == getAllChildUserStories(feature.id)
  IN  IF mode = "sum-us"
      THEN Ceil(SumSeq([i \in 1..Len(children) |-> calculateComplexityPoints(children[i])]))
      ELSE getComplexityPointsCeil(feature)

\* EstimationListComponent.getFeatureTotalPoints
getFeatureTotalPoints(feature) ==
  LET mode == IF feature.complexityMode = Undefined THEN "feature-only"
              ELSE feature.complexityMode
      children == getAllChildUserStories(feature.id)
  IN  IF mode = "sum-us"
      THEN SumSeq([i \in 1..Len(children) |-> getComplexityPointsCeil(children[i])])
      ELSE getComplexityPointsCeil(feature)

\* the search queries typed in the list's search box
SearchInputs == {"", "check", "LOG "}

\* String.prototype.includes on name.toLowerCase() for the trimmed,
\* lower-cased queries of SearchInputs and the names the store can hold
Includes(name, query) ==
  \/ query = "check" /\ name \in {"Checkout", "Checkout v2"}
  \/ query = "log" /\ name \in {"Login"}

\* searchQuery.toLowerCase().trim() on SearchInputs
TrimmedQuery(searchQuery) ==
  IF searchQuery = "LOG " THEN "log" ELSE searchQuery

\* EstimationListComponent.matchesSearch (no item carries a description)
matchesSearch(estimation, searchQuery) ==
  IF TrimmedQuery(searchQuery) = "" THEN TRUE
  ELSE Includes(estimation.name, TrimmedQuery(searchQuery))

\* EstimationListComponent.getChildUserStories: the children the list shows
\* under the search query
getChildUserStories(featureId, searchQuery) ==
  LET allChildren == SelectSeq(estimations,
                       LAMBDA e : e.type = "user-story" /\ e.parentFeatureId = featureId)
  IN  IF TrimmedQuery(searchQuery) = "" THEN allChildren
      ELSE SelectSeq(allChildren, LAMBDA us : matchesSearch(us, searchQuery))

\* The item lists the store is loaded with (loadFromStorage): a user story of
\* 22 points owned by a feature in sum-us mode whose own ratings give 4 points.
StoredStory == Estimation("e1", "u1", "Checkout", "user-story", "e2", Undefined,
                          <<25, 0, 75, 100, 100>>)
StoredFeature == Estimation("e2", "u2", "Payments", "feature", Undefined, "sum-us",
                            <<100, 0, 0, 0, 0>>)
StoredEstimations == <<StoredStory, StoredFeature>>

\* the ids handed out so far: e1, e2 and u1, u2 to the stored items, none on the board
IdsAfterLoad == [sprint |-> 0, dep |-> 0, est |-> 2, uuid |-> 2]

(***************************************************************************)
(* PlanningService: queries.                                               *)
(***************************************************************************)
DEFAULT_BOARD == [sprints |-> <<>>, positions |-> <<>>, dependencies |-> <<>>]

\* DEFAULT_SPRINT sets no capacity
DEFAULT_SPRINT == [capacity |-> <<>>]

\* generateId: an id never handed out before; n counts the ids of that kind
\* handed out so far (the prefix only makes the ids readable)
generateId(prefix, n) == prefix \o ToString(n + 1)

getSprint(id) ==
  LET found == SelectSeq(sprints, LAMBDA s : s.id = id)
  IN  IF found = <<>> THEN <<>> ELSE <<Head(found)>>

getPosition(estimationId) ==
  LET found == SelectSeq(positions, LAMBDA p : p.estimationId = estimationId)
  IN  IF found = <<>> THEN <<>> ELSE <<Head(found)>>

\* positions.map(p => estimations.find(...)).filter(e => e !== undefined)
RECURSIVE FindEstimations(_)
FindEstimations(ps) ==
  IF ps = <<>> THEN <<>>
  ELSE getEstimation(Head(ps).estimationId) \o FindEstimations(Tail(ps))

getSprintItems(sprintId) ==
  FindEstimations(SelectSeq(positions, LAMBDA p : p.sprintId = sprintId))

getPlannedItems ==
  LET positionIds == {positions[i].estimationId : i \in 1..Len(positions)}
  IN  SelectSeq(estimations, LAMBDA e : e.id \in positionIds)

getUnplannedItems ==
  LET positionIds == {positions[i].estimationId : i \in 1..Len(positions)}
  IN  SelectSeq(estimations, LAMBDA e : e.id \notin positionIds)

\* mutant: two different sprint ids count as resolved as soon as one is defined
isDependencyResolvedEitherSprint(dependency) ==
  LET sourcePos == getPosition(dependency.sourceId)
      targetPos == getPosition(dependency.targetId)
  IN  IF sourcePos = <<>> \/ targetPos = <<>> THEN FALSE
      ELSE IF sourcePos[1].sprintId = targetPos[1].sprintId THEN TRUE
      ELSE sourcePos[1].sprintId # Undefined \/ targetPos[1].sprintId # Undefined

isDependencyResolved(dependency) ==
  LET sourcePos == getPosition(dependency.sourceId)
      targetPos == getPosition(dependency.targetId)
  IN  IF sourcePos = <<>> \/ targetPos = <<>> THEN FALSE
      ELSE IF sourcePos[1].sprintId = targetPos[1].sprintId THEN TRUE
      ELSE sourcePos[1].sprintId # Undefined /\ targetPos[1].sprintId # Undefined

getSprintLoad(sprintId) ==
  LET items == getSprintItems(sprintId)
  IN  SumSeq([i \in 1..Len(items) |-> getComplexityPointsCeil(items[i])])

\* JavaScript truthiness of an optional number: defined and not 0
Truthy(optionalNumber) == optionalNumber # <<>> /\ optionalNumber[1] # 0

\* mutant: the ratio is not scaled to a percentage
LoadPercentageUnscaled(sprint, usedPoints) ==
  IF Truthy(sprint.capacity) /\ sprint.capacity[1] > 0
  THEN [num |-> usedPoints, den |-> sprint.capacity[1]]
  ELSE [num |-> 0, den |-> 1]

\* sprint.capacity && sprint.capacity > 0 ? (usedPoints / sprint.capacity) * 100 : 0
\* as the exact fraction num / den
LoadPercentage(sprint, usedPoints) ==
  IF Truthy(sprint.capacity) /\ sprint.capacity[1] > 0
  THEN [num |-> usedPoints * 100, den |-> sprint.capacity[1]]
  ELSE [num |-> 0, den |-> 1]

\* loadPercentage > percent
MoreThan(loadPercentage, percent) == loadPercentage.num > percent * loadPercentage.den

\* mutant: only the source of a dependency is looked up in the sprint
UnresolvedDepsSourceOnly(items) ==
  LET itemIds == {items[i].id : i \in 1..Len(items)}
  IN  SelectSeq(dependencies,
                LAMBDA dep : dep.sourceId \in itemIds /\ ~isDependencyResolved(dep))

UnresolvedDeps(items) ==
  LET itemIds == {items[i].id : i \in 1..Len(items)}
  IN  SelectSeq(dependencies,
                LAMBDA dep : (dep.sourceId \in itemIds \/ dep.targetId \in itemIds)
                             /\ ~isDependencyResolved(dep))

\* mutant: the capacity tests come before the dependency test
SprintStatusLoadFirst(sprint, items, loadPercentage, unresolvedDeps) ==
  IF Len(items) = 0 THEN "empty"
  ELSE IF Truthy(sprint.capacity) /\ MoreThan(loadPercentage, 100)
       THEN "overloaded"
  ELSE IF Len(unresolvedDeps) > 0 THEN "at-risk"
  ELSE IF Truthy(sprint.capacity) /\ MoreThan(loadPercentage, 85)
       THEN "warning"
  ELSE "balanced"

SprintStatus(sprint, items, loadPercentage, unresolvedDeps) ==
  IF Len(items) = 0 THEN "empty"
  ELSE IF Len(unresolvedDeps) > 0 THEN "at-risk"
  ELSE IF Truthy(sprint.capacity) /\ MoreThan(loadPercentage, 100) THEN "overloaded"
  ELSE IF Truthy(sprint.capacity) /\ MoreThan(loadPercentage, 85) THEN "warning"
  ELSE "balanced"

Null == "null"

getSprintInfo(sprintId) ==
  IF getSprint(sprintId) = <<>> THEN Null
  ELSE LET sprint == getSprint(sprintId)[1]
           items == getSprintItems(sprintId)
           usedPoints == getSprintLoad(sprintId)
           loadPercentage == LoadPercentage(sprint, usedPoints)
           unresolvedDeps == UnresolvedDeps(items)
       IN  [sprint |-> sprint,
            usedPoints |-> usedPoints,
            itemCount |-> Len(items),
            loadPercentage |-> loadPercentage,
            unresolvedDependencies |-> Len(unresolvedDeps),
            status |-> SprintStatus(sprint, items, loadPercentage, unresolvedDeps)]

(***************************************************************************)
(* PlanningService: operations on the board.                               *)
(***************************************************************************)
\* inputs of the board operations
CapacityInputs == {<<>>, <<0>>, <<20>>, <<25>>}
PositionInputs == {[x |-> 0, y |-> 0], [x |-> 40, y |-> 60]}
EstimationIdInputs == {"e1", "e2"}
DependencyTypeInputs == {"depends-on"}
SprintIdsOnBoard == {sprints[i].id : i \in 1..Len(sprints)}

SettingsUnchanged == UNCHANGED <<dimensionWeights, tShirtSizesConfig>>
FormUnchanged == UNCHANGED form

createSprint(sprint) ==
  /\ ids.sprint < MaxSprints
  /\ LET newSprint == [id |-> generateId("s", ids.sprint),
                       capacity |-> sprint.capacity]
     IN  /\ sprints' = Append(sprints, newSprint)
         /\ last' = NoCall
  /\ ids' = [ids EXCEPT !.sprint = @ + 1]
  /\ UNCHANGED <<estimations, positions, dependencies>>
  /\ SettingsUnchanged
  /\ FormUnchanged

updateSprint(id, capacity) ==
  /\ id \in SprintIdsOnBoard
  /\ sprints' = [i \in 1..Len(sprints) |->
                   IF i = (CHOOSE j \in 1..Len(sprints) : sprints[j].id = id)
                   THEN [sprints[i] EXCEPT !.capacity = capacity]
                   ELSE sprints[i]]
  /\ last' = NoCall
  /\ UNCHANGED <<estimations, positions, dependencies, ids>>
  /\ SettingsUnchanged
  /\ FormUnchanged

\* mutant: the placements of the sprint are removed with it
deleteSprintDropsItems(id) ==
  /\ sprints' = SelectSeq(sprints, LAMBDA s : s.id # id)
  /\ positions' = SelectSeq(positions, LAMBDA p : p.sprintId # id)
  /\ last' = [op |-> "deleteSprint", id |-> id,
              released |-> {positions[i].estimationId :
                              i \in {j \in 1..Len(positions) : positions[j].sprintId = id}}]
  /\ UNCHANGED <<estimations, dependencies, ids>>
  /\ SettingsUnchanged
  /\ FormUnchanged

\* mutant: the sprint is removed and its items keep its id
deleteSprintKeepsItems(id) ==
  /\ sprints' = SelectSeq(sprints, LAMBDA s : s.id # id)
  /\ last' = [op |-> "deleteSprint", id |-> id,
              released |-> {positions[i].estimationId :
                              i \in {j \in 1..Len(positions) : positions[j].sprintId = id}}]
  /\ UNCHANGED <<estimations, positions, dependencies, ids>>
  /\ SettingsUnchanged
  /\ FormUnchanged

deleteSprint(id) ==
  /\ sprints' = SelectSeq(sprints, LAMBDA s : s.id # id)
  /\ positions' = [i \in 1..Len(positions) |->
                     IF positions[i].sprintId = id
                     THEN [positions[i] EXCEPT !.sprintId = Undefined]
                     ELSE positions[i]]
  /\ last' = [op |-> "deleteSprint", id |-> id,
              released |-> {positions[i].estimationId :
                              i \in {j \in 1..Len(positions) : positions[j].sprintId = id}}]
  /\ UNCHANGED <<estimations, dependencies, ids>>
  /\ SettingsUnchanged
  /\ FormUnchanged

\* mutant: the new placement is always appended
SetPositionAppends(estimationId, position, sprintId) ==
  Append(positions, [estimationId |-> estimationId, sprintId |-> sprintId,
                     position |-> position])

\* the positions array setPosition stores
SetPosition(estimationId, position, sprintId) ==
  LET newPosition == [estimationId |-> estimationId, sprintId |-> sprintId,
                      position |-> position]
      existing == {i \in 1..Len(positions) : positions[i].estimationId = estimationId}
  IN  IF existing # {}
      THEN LET existingIndex == CHOOSE i \in existing : \A j \in existing : i <= j
           IN  [positions EXCEPT ![existingIndex] = newPosition]
      ELSE Append(positions, newPosition)

setPosition(estimationId, position, sprintId) ==
  /\ positions' = SetPosition(estimationId, position, sprintId)
  /\ last' = NoCall
  /\ UNCHANGED <<estimations, sprints, dependencies, ids>>
  /\ SettingsUnchanged
  /\ FormUnchanged

moveItem(estimationId, position) ==
  /\ LET existing == getPosition(estimationId)
     IN  positions' = SetPosition(estimationId, position,
                                  IF existing = <<>> THEN Undefined
                                  ELSE existing[1].sprintId)
  /\ last' = NoCall
  /\ UNCHANGED <<estimations, sprints, dependencies, ids>>
  /\ SettingsUnchanged
  /\ FormUnchanged

assignToSprint(estimationId, sprintId) ==
  /\ LET existing == getPosition(estimationId)
         position == IF existing = <<>> THEN [x |-> 0, y |-> 0]
                     ELSE existing[1].position
     IN  positions' = SetPosition(estimationId, position, sprintId)
  /\ last' = NoCall
  /\ UNCHANGED <<estimations, sprints, dependencies, ids>>
  /\ SettingsUnchanged
  /\ FormUnchanged

removeFromSprint(estimationId) ==
  /\ LET existing == getPosition(estimationId)
     IN  positions' = IF existing # <<>>
                      THEN SetPosition(estimationId, existing[1].position, Undefined)
                      ELSE positions
  /\ last' = NoCall
  /\ UNCHANGED <<estimations, sprints, dependencies, ids>>
  /\ SettingsUnchanged
  /\ FormUnchanged

\* mutant: the placement is removed and the dependencies stay
removeFromBoardKeepsDependencies(estimationId) ==
  /\ positions' = SelectSeq(positions, LAMBDA p : p.estimationId # estimationId)
  /\ last' = NoCall
  /\ UNCHANGED <<estimations, sprints, dependencies, ids>>
  /\ SettingsUnchanged
  /\ FormUnchanged

removeFromBoard(estimationId) ==
  /\ positions' = SelectSeq(positions, LAMBDA p : p.estimationId # estimationId)
  /\ dependencies' = SelectSeq(dependencies,
                               LAMBDA d : d.sourceId # estimationId
                                          /\ d.targetId # estimationId)
  /\ last' = NoCall
  /\ UNCHANGED <<estimations, sprints, ids>>
  /\ SettingsUnchanged
  /\ FormUnchanged

addDependency(sourceId, targetId, type) ==
  /\ ids.dep < MaxDeps
  /\ LET newDep == [id |-> generateId("d", ids.dep), sourceId |-> sourceId,
                    targetId |-> targetId, type |-> type]
     IN  /\ dependencies' = Append(dependencies, newDep)
         /\ last' = NoCall
  /\ ids' = [ids EXCEPT !.dep = @ + 1]
  /\ UNCHANGED <<estimations, sprints, positions>>
  /\ SettingsUnchanged
  /\ FormUnchanged

removeDependency(id) ==
  /\ dependencies' = SelectSeq(dependencies, LAMBDA d : d.id # id)
  /\ last' = NoCall
  /\ UNCHANGED <<estimations, sprints, positions, ids>>
  /\ SettingsUnchanged
  /\ FormUnchanged

resetBoard ==
  /\ sprints' = DEFAULT_BOARD.sprints
  /\ positions' = DEFAULT_BOARD.positions
  /\ dependencies' = DEFAULT_BOARD.dependencies
  /\ last' = NoCall
  /\ UNCHANGED <<estimations, ids>>
  /\ SettingsUnchanged
  /\ FormUnchanged

(***************************************************************************)
(* EstimationService: JSON export and import.  A JSON value is             *)
(* JsonNumber(n), JsonString(s) or JsonAbsent (the property is missing or  *)
(* null); an exported item is a record of JSON values and the exported     *)
(* text is the sequence of these records, as JSON.parse gives it back.     *)
(***************************************************************************)
JsonAbsent == [t |-> "undefined"]
JsonNumber(n) == [t |-> "number", v |-> n]
JsonString(s) == [t |-> "string", v |-> s]

\* JSON.stringify leaves out a property whose value is undefined
JsonOptionalString(s) == IF s = Undefined THEN JsonAbsent ELSE JsonString(s)

\* JSON.stringify of a rating: a property holding a function is left out
JsonRating(rating) == IF rating < 0 THEN JsonAbsent ELSE JsonNumber(rating)

\* JSON.stringify of one Estimation
EstimationToJson(e) ==
  [id |-> JsonString(e.id), uuid |-> JsonString(e.uuid), name |-> JsonString(e.name),
   type |-> JsonOptionalString(e.type),
   parentFeatureId |-> JsonOptionalString(e.parentFeatureId),
   complexityMode |-> JsonOptionalString(e.complexityMode),
   complexity |-> JsonRating(e.complexity), uncertainty |-> JsonRating(e.uncertainty),
   risk |-> JsonRating(e.risk), size |-> JsonRating(e.size),
   effort |-> JsonRating(e.effort)]

\* JSON.stringify of a list of items
StringifyEstimations(list) == [i \in 1..Len(list) |-> EstimationToJson(list[i])]

exportToJson == StringifyEstimations(estimations)

LABEL_TO_VALUE ==
  [complexity |-> ("aucune" :> 0 @@ "simple" :> 25 @@ "moyenne" :> 50 @@
                   "complexe" :> 75 @@ "impossible" :> 100),
   uncertainty |-> ("aucune" :> 0 @@ "faible" :> 25 @@ "moyenne" :> 50 @@
                    "élevée" :> 75 @@ "totale" :> 100),
   risk |-> ("aucun" :> 0 @@ "faible" :> 33 @@ "moyen" :> 66 @@ "élevé" :> 100),
   size |-> ("petit" :> 0 @@ "moyen" :> 33 @@ "grand" :> 66 @@ "énorme" :> 100),
   effort |-> ("petit" :> 0 @@ "moyen" :> 33 @@ "grand" :> 66 @@ "inconnu" :> 100)]

\* String.prototype.toLowerCase on the labels the imports below carry
toLowerCase(s) ==
  CASE s = "Moyenne" -> "moyenne"
    [] s = "GRAND" -> "grand"
    [] OTHER -> s

Min(a, b) == IF a <= b THEN a ELSE b
Max(a, b) == IF a >= b THEN a ELSE b

\* labelMap[key] also finds what the label map, an object literal, inherits
\* from Object.prototype: the key "constructor" yields the function Object.
\* A rating holding that function is kept as the integer ObjectConstructor,
\* outside the rating scale, so that ratings stay comparable.
ObjectConstructor == -1
ObjectPrototypeKeys == {"constructor"}

migrateValue(value, axis) ==
  IF value.t = "number"
  THEN Max(0, Min(100, value.v))
  ELSE LET labelMap == LABEL_TO_VALUE[axis]
           key == toLowerCase(value.v)
       IN  IF key \in DOMAIN labelMap THEN labelMap[key]
           ELSE IF key \in ObjectPrototypeKeys THEN ObjectConstructor
           ELSE 0

\* JavaScript truthiness of a JSON value (x || fallback)
JsonTruthy(value) ==
  \/ value.t = "string" /\ value.v # ""
  \/ value.t = "number" /\ value.v # 0

\* x ?? 0
OrZero(value) == IF value = JsonAbsent THEN JsonNumber(0) ELSE value

\* one element of validEstimations: the record importFromJson builds from the
\* imported element e, given the local id and the uuid generated for it
ImportedEstimation(e, id, uuid) ==
  [id |-> id,
   uuid |-> IF JsonTruthy(e.uuid) THEN e.uuid.v ELSE uuid,
   name |-> IF JsonTruthy(e.name) THEN e.name.v ELSE "Estimation importée",
   type |-> IF e.type = JsonString("user-story") \/ e.type = JsonString("feature")
            THEN e.type.v ELSE Undefined,
   parentFeatureId |-> Undefined,
   complexityMode |-> Undefined,
   complexity |-> migrateValue(OrZero(e.complexity), "complexity"),
   uncertainty |-> migrateValue(OrZero(e.uncertainty), "uncertainty"),
   risk |-> migrateValue(OrZero(e.risk), "risk"),
   size |-> migrateValue(OrZero(e.size), "size"),
   effort |-> migrateValue(OrZero(e.effort), "effort")]

\* how many of the first n imported elements get a generated uuid
GeneratedUuids(imported, n) ==
  Cardinality({j \in 1..n : ~JsonTruthy(imported[j].uuid)})

\* imported.map(e => ({...})): every element takes a new local id, and a new
\* uuid when it carries none
validEstimations(imported) ==
  [k \in 1..Len(imported) |->
     ImportedEstimation(imported[k],
                        generateId("e", ids.est + k - 1),
                        generateId("u", ids.uuid + GeneratedUuids(imported, k - 1)))]

\* mutant: the lookup never finds the key
MapGetMisses(entries, key) == <<>>

\* A Map keyed by uuid, as the sequence of its values in insertion order.
MapGet(entries, key) ==
  LET found == SelectSeq(entries, LAMBDA e : e.uuid = key)
  IN  IF found = <<>> THEN <<>> ELSE <<Head(found)>>

\* mutant: setting a key that is present moves the entry to the end
MapSetMovesToEnd(entries, value) ==
  Append(SelectSeq(entries, LAMBDA e : e.uuid # value.uuid), value)

\* Map.prototype.set: a present key keeps its place, a new key goes last
MapSet(entries, value) ==
  IF \E i \in 1..Len(entries) : entries[i].uuid = value.uuid
  THEN [i \in 1..Len(entries) |->
          IF entries[i].uuid = value.uuid THEN value ELSE entries[i]]
  ELSE Append(entries, value)

\* new Map(existing.map(e => [e.uuid, e]))
RECURSIVE NewMap(_, _)
NewMap(entries, existing) ==
  IF existing = <<>> THEN entries
  ELSE NewMap(MapSet(entries, Head(existing)), Tail(existing))

\* the loop of importFromJson over validEstimations
RECURSIVE MergeImported(_, _, _, _)
MergeImported(existingByUuid, valid, added, updated) ==
  IF valid = <<>>
  THEN [merged |-> existingByUuid, added |-> added, updated |-> updated]
  ELSE LET importedEst == Head(valid)
           existingEst == MapGet(existingByUuid, importedEst.uuid)
       IN  IF existingEst # <<>>
           THEN MergeImported(
                  MapSet(existingByUuid, [importedEst EXCEPT !.id = existingEst[1].id]),
                  Tail(valid), added, updated + 1)
           ELSE MergeImported(MapSet(existingByUuid, importedEst),
                              Tail(valid), added + 1, updated)

(***************************************************************************)
(* SettingsService: T-shirt threshold tables and the size classifier.      *)
(* A table entry keeps the size label and max; the colours are left out.   *)
(***************************************************************************)
getDefaultUserStoryTShirtSizes ==
  <<[size |-> "XS", max |-> 3], [size |-> "S", max |-> 8], [size |-> "M", max |-> 21],
    [size |-> "L", max |-> 55], [size |-> "XL", max |-> 100],
    [size |-> "XXL", max |-> 180]>>

getDefaultFeatureTShirtSizes ==
  <<[size |-> "XS", max |-> 15], [size |-> "S", max |-> 32], [size |-> "M", max |-> 84],
    [size |-> "L", max |-> 165], [size |-> "XL", max |-> 200],
    [size |-> "XXL", max |-> 270]>>

getDefaultTShirtSizesConfig ==
  [userStory |-> getDefaultUserStoryTShirtSizes, feature |-> getDefaultFeatureTShirtSizes]

getUserStoryTShirtSizes == tShirtSizesConfig.userStory
getFeatureTShirtSizes == tShirtSizesConfig.feature

\* getTShirtSizeByPoints for points given in tenths; the type parameter
\* defaults to 'user-story' when undefined
getTShirtSizeByPoints(points, type) ==
  LET sizes == IF type = "feature" THEN getFeatureTShirtSizes
               ELSE getUserStoryTShirtSizes
      fitting == SelectSeq(sizes, LAMBDA tShirt : points <= tShirt.max * 10)
  IN  IF fitting # <<>> THEN Head(fitting) ELSE sizes[Len(sizes)]

(***************************************************************************)
(* EstimationFormComponent and RadarChartComponent: the size shown for the *)
(* ratings being edited / displayed.  Both keep a table of their own and   *)
(* score the plain average of the five ratings.                            *)
(***************************************************************************)
\* EstimationFormComponent.tShirtSizes
FormTShirtSizes ==
  <<[size |-> "XS", min |-> 1, max |-> 3], [size |-> "S", min |-> 3, max |-> 8],
    [size |-> "M", min |-> 8, max |-> 21], [size |-> "L", min |-> 21, max |-> 55],
    [size |-> "XL", min |-> 55, max |-> 144],
    [size |-> "XXL", min |-> 144, max |-> 377]>>

\* RadarChartComponent.tShirtSizes
RadarTShirtSizes ==
  <<[size |-> "XS", min |-> 1, max |-> 3], [size |-> "S", min |-> 3, max |-> 8],
    [size |-> "M", min |-> 8, max |-> 21], [size |-> "L", min |-> 21, max |-> 55],
    [size |-> "XL", min |-> 55, max |-> 144],
    [size |-> "XXL", min |-> 144, max |-> 377]>>

\* getCurseAverage, in fifths: the sum of the five ratings
getCurseAverage(e) == e.complexity + e.uncertainty + e.risk + e.size + e.effort

\* calculatePointsFromAverage for an average given in fifths, in tenths of a
\* point: normalized = average / 100 is (fifths * 2000) millionths
calculatePointsFromAverage(curseAverageFifths) == Pow377Tenths(curseAverageFifths * 2000)

\* EstimationFormComponent.getTShirtSize for the ratings of the form
FormGetTShirtSize(formData) ==
  LET points == calculatePointsFromAverage(getCurseAverage(formData))
      fitting == SelectSeq(FormTShirtSizes, LAMBDA tShirt : points < tShirt.max * 10)
  IN  IF fitting # <<>> THEN Head(fitting) ELSE FormTShirtSizes[Len(FormTShirtSizes)]

\* RadarChartComponent.getTShirtSize for the estimation displayed
RadarGetTShirtSize(estimation) ==
  LET points == calculatePointsFromAverage(getCurseAverage(estimation))
      fitting == SelectSeq(RadarTShirtSizes, LAMBDA tShirt : points < tShirt.max * 10)
  IN  IF fitting # <<>> THEN Head(fitting) ELSE RadarTShirtSizes[Len(RadarTShirtSizes)]

(***************************************************************************)
(* EstimationListComponent as declared in estimation-list.component.ts:    *)
(* the list scores items with its own unweighted formula.                  *)
(***************************************************************************)
\* EstimationListComponent.calculateComplexityPoints, in tenths of a point
ListCalculateComplexityPoints(estimation) ==
  calculatePointsFromAverage(getCurseAverage(estimation))

\* EstimationListComponent.getComplexityPointsCeil
ListGetComplexityPointsCeil(estimation) ==
  Ceil(ListCalculateComplexityPoints(estimation))

\* EstimationListComponent.getFeatureTotalPoints
ListGetFeatureTotalPoints(feature) ==
  LET mode == IF feature.complexityMode = Undefined THEN "feature-only"
              ELSE feature.complexityMode
      childUserStories == getAllChildUserStories(feature.id)
  IN  IF mode = "sum-us"
      THEN SumSeq([i \in 1..Len(childUserStories) |->
                     ListGetComplexityPointsCeil(childUserStories[i])])
      ELSE Ceil(ListCalculateComplexityPoints(feature))

\* EstimationListComponent.tShirtSizes: the table the list declares itself
ListTShirtSizes ==
  <<[size |-> "XS", min |-> 1, max |-> 3], [size |-> "S", min |-> 3, max |-> 8],
    [size |-> "M", min |-> 8, max |-> 21], [size |-> "L", min |-> 21, max |-> 55],
    [size |-> "XL", min |-> 55, max |-> 144], [size |-> "XXL", min |-> 144, max |-> 377]>>

\* EstimationListComponent.getTShirtSizeByPoints (private, whole points)
ListGetTShirtSizeByPoints(points) ==
  LET fitting == SelectSeq(ListTShirtSizes, LAMBDA tShirt : points <= tShirt.max)
  IN  IF fitting # <<>> THEN Head(fitting) ELSE ListTShirtSizes[Len(ListTShirtSizes)]

\* EstimationListComponent.getFeatureTShirtSize of estimation-list.component.ts
ListGetFeatureTShirtSize(feature) ==
  ListGetTShirtSizeByPoints(ListGetFeatureTotalPoints(feature))

\* EstimationListComponent.getFeatureTShirtSize of the declaration that
\* delegates to the settings
getFeatureTShirtSize(feature) ==
  getTShirtSizeByPoints(getFeatureTotalPoints(feature) * 10, "feature")

\* PlanningItemCardComponent.calculateMetrics: the points and the size the
\* board card of an item shows
calculateMetrics(estimation) ==
  LET points == Ceil(calculateComplexityPoints(estimation))
      type == IF estimation.type = Undefined THEN "user-story" ELSE estimation.type
  IN  [points |-> points, tShirtSize |-> getTShirtSizeByPoints(points * 10, type)]

(***************************************************************************)
(* EstimationService.getRecommendations: the advisories of one item.  An   *)
(* advisory keeps its type, title and dimension; the icon and the text are *)
(* fixed per title, except the rounded average the children's Info quotes, *)
(* kept in score (a sequence of length 0 when the text quotes nothing).    *)
(***************************************************************************)
Recommendation(type, title, dimension) ==
  [type |-> type, title |-> title, dimension |-> dimension, score |-> <<>>]

\* mutant: the advisory is pushed twice
PushIfTwice(condition, r) == IF condition THEN <<r, r>> ELSE <<>>

\* recommendations.push(r) under a condition
PushIf(condition, r) == IF condition THEN <<r>> ELSE <<>>

\* the filter of the closing message: no danger and no warning pushed so far
NoDangerNoWarning(recommendations) ==
  SelectSeq(recommendations, LAMBDA r : r.type = "danger" \/ r.type = "warning") = <<>>

\* `${n} User ${n > 1 ? 'Stories' : 'Story'} rattachée${n > 1 ? 's' : ''}`
LinkedTitle(n) ==
  ToString(n) \o " User " \o (IF n > 1 THEN "Stories" ELSE "Story")
              \o " rattachée" \o (IF n > 1 THEN "s" ELSE "")

\* the sum of the five ratings of an item: five times its average
RatingSum(e) == e.complexity + e.uncertainty + e.risk + e.size + e.effort

\* the sum-us branch of getRecommendations
SumModeRecommendations(estimation) ==
  LET childUS == getUserStoriesForFeature(estimation.id)
      n == Len(childUS)
      \* avgUS = total / (5 * n)
      total == SumSeq([i \in 1..n |-> RatingSum(childUS[i])])
      highRiskUS == SelectSeq(childUS, LAMBDA us : us.risk >= 75)
      highUncertaintyUS == SelectSeq(childUS, LAMBDA us : us.uncertainty >= 75)
      largeUS == SelectSeq(childUS, LAMBDA us : us.size >= 75)
  IN  IF n = 0
      THEN <<Recommendation("info", "Aucune User Story rattachée", Undefined)>>
      ELSE <<[Recommendation("info", LinkedTitle(n), Undefined)
                EXCEPT !.score = <<(2 * total + 5 * n) \div (10 * n)>>]>>
           \o PushIf(Len(highRiskUS) > 0,
                     Recommendation("danger",
                                    ToString(Len(highRiskUS)) \o " US à risque élevé",
                                    "risk"))
           \o PushIf(Len(highUncertaintyUS) > 0,
                     Recommendation("warning",
                                    ToString(Len(highUncertaintyUS))
                                      \o " US avec forte incertitude",
                                    "uncertainty"))
           \o PushIf(Len(largeUS) > 0,
                     Recommendation("warning",
                                    ToString(Len(largeUS)) \o " US volumineuse"
                                      \o (IF Len(largeUS) > 1 THEN "s" ELSE ""),
                                    "size"))
           \o PushIf(total <= 30 * 5 * n /\ Len(highRiskUS) = 0
                       /\ Len(highUncertaintyUS) = 0,
                     Recommendation("success", "Feature bien découpée", Undefined))

\* the closing message of both catalogs, for avg = ratingSum / 5
ClosingMessage(recommendations, ratingSum, strong, mild) ==
  IF NoDangerNoWarning(recommendations)
  THEN IF ratingSum <= 25 * 5
       THEN <<Recommendation("success", strong, Undefined)>>
       ELSE IF ratingSum <= 40 * 5
            THEN <<Recommendation("success", mild, Undefined)>>
            ELSE <<>>
  ELSE <<>>

addFeatureRecommendations(estimation) ==
  LET e == estimation
      childUS == getUserStoriesForFeature(e.id)
      pushed ==
        PushIf(e.size >= 75, Recommendation("danger", "Feature volumineuse", "size"))
        \o PushIf(e.complexity >= 75,
                  Recommendation("danger", "Complexité élevée", "complexity"))
        \o PushIf(e.uncertainty >= 75,
                  Recommendation("danger", "Incertitude élevée", "uncertainty"))
        \o PushIf(e.risk >= 75, Recommendation("danger", "Risques élevés", "risk"))
        \o PushIf(e.effort >= 75, Recommendation("danger", "Effort important", "effort"))
        \o PushIf(e.size >= 50 /\ e.size < 75,
                  Recommendation("warning", "Périmètre à structurer", "size"))
        \o PushIf(e.complexity >= 50 /\ e.complexity < 75,
                  Recommendation("warning", "Architecture à définir", "complexity"))
        \o PushIf(e.uncertainty >= 50 /\ e.uncertainty < 75,
                  Recommendation("warning", "Cadrage à renforcer", "uncertainty"))
        \o PushIf(e.risk >= 50 /\ e.risk < 75,
                  Recommendation("warning", "Risques à piloter", "risk"))
        \o PushIf(e.effort >= 50 /\ e.effort < 75,
                  Recommendation("warning", "Capacité à anticiper", "effort"))
        \o PushIf(e.complexityMode # "sum-us" /\ Len(childUS) = 0,
                  Recommendation("info", "Pas encore de User Stories", Undefined))
  IN  pushed \o ClosingMessage(pushed, RatingSum(e), "Feature bien calibrée",
                               "Bonne maîtrise")

addUserStoryRecommendations(estimation) ==
  LET e == estimation
      pushed ==
        PushIf(e.size >= 75, Recommendation("danger", "User Story trop grande", "size"))
        \o PushIf(e.complexity >= 75,
                  Recommendation("danger", "Complexité élevée", "complexity"))
        \o PushIf(e.uncertainty >= 75,
                  Recommendation("danger", "Forte incertitude", "uncertainty"))
        \o PushIf(e.risk >= 75, Recommendation("danger", "Risque élevé", "risk"))
        \o PushIf(e.effort >= 75, Recommendation("danger", "Effort conséquent", "effort"))
        \o PushIf(e.size >= 50 /\ e.size < 75,
                  Recommendation("warning", "Taille modérée", "size"))
        \o PushIf(e.complexity >= 50 /\ e.complexity < 75,
                  Recommendation("warning", "Complexité technique", "complexity"))
        \o PushIf(e.uncertainty >= 50 /\ e.uncertainty < 75,
                  Recommendation("warning", "Incertitude modérée", "uncertainty"))
        \o PushIf(e.risk >= 50 /\ e.risk < 75,
                  Recommendation("warning", "Risques à surveiller", "risk"))
        \o PushIf(e.effort >= 50 /\ e.effort < 75,
                  Recommendation("warning", "Effort notable", "effort"))
        \o PushIf(e.parentFeatureId = Undefined \/ e.parentFeatureId = "",
                  Recommendation("info", "US sans feature parente", Undefined))
  IN  pushed \o ClosingMessage(pushed, RatingSum(e), "Estimation maîtrisée",
                               "Bonne estimation")

\* mutant: the list is a field of the service that is never reset, so a call
\* right after a call appends to the list of the call before
getRecommendationsAccumulating(estimation) ==
  LET isFeature == estimation.type = "feature"
      isSumMode == isFeature /\ estimation.complexityMode = "sum-us"
      kept == IF last.op = "getRecommendations" THEN last.result ELSE <<>>
  IN  kept \o (IF isSumMode THEN SumModeRecommendations(estimation)
               ELSE IF isFeature THEN addFeatureRecommendations(estimation)
               ELSE addUserStoryRecommendations(estimation))

\* getRecommendations for an estimation that is not null
getRecommendations(estimation) ==
  LET isFeature == estimation.type = "feature"
      isSumMode == isFeature /\ estimation.complexityMode = "sum-us"
  IN  IF isSumMode THEN SumModeRecommendations(estimation)
      ELSE IF isFeature THEN addFeatureRecommendations(estimation)
      ELSE addUserStoryRecommendations(estimation)

\* EstimationFormComponent.updateRecommendations: the advisories the form
\* shows for its data; the temporary estimation carries no complexityMode
FormRecommendations(estimation, formData) ==
  getRecommendations(
    Estimation(IF estimation # <<>> THEN estimation[1].id ELSE "temp",
               IF estimation # <<>> THEN estimation[1].uuid ELSE "temp-uuid",
               formData.name, formData.type,
               IF formData.parentFeatureId = "" THEN Undefined
               ELSE formData.parentFeatureId,
               Undefined,
               <<formData.complexity, formData.uncertainty, formData.risk,
                 formData.size, formData.effort>>))

(***************************************************************************)
(* PlanningService.getPlanningRecommendations: the advisories of the       *)
(* board.  An advisory keeps its type, title, sprintId and estimationId;   *)
(* quoted holds the number its text quotes (the rounded load or a count),  *)
(* as a sequence of length 0 when the text quotes none.                    *)
(***************************************************************************)
PlanningRecommendation(type, title, sprintId, estimationId, quoted) ==
  [type |-> type, title |-> title, sprintId |-> sprintId,
   estimationId |-> estimationId, quoted |-> quoted]

\* mutant: the lower bound of the balanced band is exclusive
AtLeastStrict(loadPercentage, percent) == loadPercentage.num > percent * loadPercentage.den

\* loadPercentage >= percent
AtLeast(loadPercentage, percent) == loadPercentage.num >= percent * loadPercentage.den

\* Math.round(loadPercentage)
RoundedLoad(loadPercentage) ==
  (2 * loadPercentage.num + loadPercentage.den) \div (2 * loadPercentage.den)

\* the body of the loop over board.sprints for one sprint
SprintRecommendations(sprint) ==
  LET info == getSprintInfo(sprint.id)
      items == getSprintItems(sprint.id)
      highUncertaintyItems == SelectSeq(items, LAMBDA i : i.uncertainty >= 75)
      highRiskItems == SelectSeq(items, LAMBDA i : i.risk >= 75)
  \* getSprintInfo returns null for a sprint id that is not on the board
  IN  IF getSprint(sprint.id) = <<>> THEN <<>>
      ELSE PushIf(MoreThan(info.loadPercentage, 100),
                  PlanningRecommendation("danger", "Sprint surchargé", sprint.id, Undefined,
                                         <<RoundedLoad(info.loadPercentage)>>))
           \o PushIf(info.unresolvedDependencies > 0,
                     PlanningRecommendation("danger", "Dépendances non résolues", sprint.id,
                                            Undefined, <<info.unresolvedDependencies>>))
           \o PushIf(MoreThan(info.loadPercentage, 85) /\ ~MoreThan(info.loadPercentage, 100),
                     PlanningRecommendation("warning", "Sprint presque plein", sprint.id,
                                            Undefined, <<RoundedLoad(info.loadPercentage)>>))
           \o PushIf(info.status = "balanced" /\ AtLeast(info.loadPercentage, 60)
                       /\ ~MoreThan(info.loadPercentage, 85),
                     PlanningRecommendation("success", "Sprint équilibré", sprint.id,
                                            Undefined, <<RoundedLoad(info.loadPercentage)>>))
           \o PushIf(Len(highUncertaintyItems) >= 2,
                     PlanningRecommendation("warning", "Incertitude élevée", sprint.id,
                                            Undefined, <<Len(highUncertaintyItems)>>))
           \o PushIf(Len(highRiskItems) > 0,
                     PlanningRecommendation("danger", "Risques élevés", sprint.id,
                                            Undefined, <<Len(highRiskItems)>>))

\* for (const sprint of board.sprints): the advisories of the sprints from
\* index i on, in board order
RECURSIVE AllSprintRecommendations(_)
AllSprintRecommendations(i) ==
  IF i > Len(sprints) THEN <<>>
  ELSE SprintRecommendations(sprints[i]) \o AllSprintRecommendations(i + 1)

\* the Info of each unplanned feature scoring more than 100 points
LargeFeatureRecommendations ==
  LET largeFeatures ==
        SelectSeq(getUnplannedItems,
                  LAMBDA item : item.type = "feature"
                                /\ calculateComplexityPoints(item) > 1000)
  IN  [k \in 1..Len(largeFeatures) |->
         PlanningRecommendation("info", "Feature volumineuse", Undefined,
                                largeFeatures[k].id, <<>>)]

\* the aggregate Info of the dependencies with an unplanned endpoint
UnplannedDependencyRecommendations ==
  LET plannedIds == {positions[i].estimationId : i \in 1..Len(positions)}
      depsWithUnplanned ==
        SelectSeq(dependencies,
                  LAMBDA dep : dep.sourceId \notin plannedIds \/ dep.targetId \notin plannedIds)
  IN  PushIf(Len(depsWithUnplanned) > 0,
             PlanningRecommendation("info", "Dépendances partiellement planifiées",
                                    Undefined, Undefined, <<Len(depsWithUnplanned)>>))

getPlanningRecommendations ==
  AllSprintRecommendations(1) \o LargeFeatureRecommendations
    \o UnplannedDependencyRecommendations

\* a store loaded with the stored story and feature, two user stories of
\* 4 and 5 points whose uncertainty is 75 and 100, and two large items
UnsureStory == Estimation("e3", "u3", "Refunds", "user-story", Undefined, Undefined,
                          <<0, 75, 0, 0, 0>>)
UnclearStory == Estimation("e4", "u4", "Invoices", "user-story", Undefined, Undefined,
                           <<0, 100, 0, 0, 0>>)
\* a user story of 377 points linked to the stored feature, never placed
HugeStory == Estimation("e5", "u5", "Migration", "user-story", "e2", Undefined,
                        <<100, 100, 100, 100, 100>>)
\* a feature of 377 points in feature-only mode, never placed
LargeFeature == Estimation("e6", "u6", "Platform", "feature", Undefined, "feature-only",
                           <<100, 100, 100, 100, 100>>)
PlanningStore ==
  <<StoredStory, StoredFeature, UnsureStory, UnclearStory, HugeStory, LargeFeature>>

(***************************************************************************)
(* The planning board: the store as loaded, the default board, and every   *)
(* board operation of PlanningService.                                     *)
(***************************************************************************)
\* the form as constructed, with no estimation given: the default form
\* data, no timer
ClosedForm ==
  [estimation |-> <<>>,
   formData |-> [name |-> "", type |-> "user-story", parentFeatureId |-> "",
                 complexityMode |-> "feature-only",
                 complexity |-> 0, uncertainty |-> 0, risk |-> 0, size |-> 0, effort |-> 0],
   saveTimeout |-> FALSE,
   unsaved |-> {}]

Init ==
  /\ estimations = StoredEstimations
  /\ sprints = DEFAULT_BOARD.sprints
  /\ positions = DEFAULT_BOARD.positions
  /\ dependencies = DEFAULT_BOARD.dependencies
  /\ dimensionWeights = getDefaultDimensionWeights
  /\ tShirtSizesConfig = getDefaultTShirtSizesConfig
  /\ ids = IdsAfterLoad
  /\ last = NoCall
  /\ form = ClosedForm

Next ==
  \/ createSprint(DEFAULT_SPRINT)
  \/ \E id \in SprintIdsOnBoard, capacity \in CapacityInputs : updateSprint(id, capacity)
  \/ \E id \in SprintIdsOnBoard : deleteSprint(id)
  \/ \E e \in EstimationIdInputs, p \in PositionInputs,
        s \in SprintIdsOnBoard \cup {Undefined} : setPosition(e, p, s)
  \/ \E e \in EstimationIdInputs, p \in PositionInputs : moveItem(e, p)
  \/ \E e \in EstimationIdInputs, s \in SprintIdsOnBoard : assignToSprint(e, s)
  \/ \E e \in EstimationIdInputs : removeFromSprint(e)
  \/ \E e \in EstimationIdInputs : removeFromBoard(e)
  \/ \E s, t \in EstimationIdInputs, ty \in DependencyTypeInputs :
        s # t /\ addDependency(s, t, ty)
  \/ \E i \in 1..Len(dependencies) : removeDependency(dependencies[i].id)
  \/ resetBoard

Spec == Init /\ [][Next]_vars

(***************************************************************************)
(* EstimationService: operations on the item store.                        *)
(***************************************************************************)
\* the form data createEstimation is called with
EstimationInputs ==
  {[name |-> "Login", type |-> "user-story", parentFeatureId |-> "e2",
    complexityMode |-> Undefined, ratings |-> <<50, 50, 50, 50, 50>>],
   [name |-> "Search", type |-> "feature", parentFeatureId |-> Undefined,
    complexityMode |-> "feature-only", ratings |-> <<0, 25, 0, 100, 10>>]}

\* the elements of the imported arrays: a new-format record carrying the
\* uuid of a stored item and out-of-range ratings, a legacy record with
\* labels and a uuid no stored item has, a record without uuid, name or
\* ratings and with an unknown type, and a record mixing numbers with labels
\* the tables do not list
ImportedStory ==
  [id |-> JsonString("zz"), uuid |-> JsonString("u1"), name |-> JsonString("Checkout v2"),
   type |-> JsonString("user-story"), parentFeatureId |-> JsonString("e2"),
   complexityMode |-> JsonAbsent,
   complexity |-> JsonNumber(150), uncertainty |-> JsonNumber(-5),
   risk |-> JsonNumber(30), size |-> JsonNumber(40), effort |-> JsonNumber(50)]
ImportedLegacy ==
  [id |-> JsonString("e1"), uuid |-> JsonString("x1"), name |-> JsonString("Billing"),
   type |-> JsonString("feature"), parentFeatureId |-> JsonAbsent,
   complexityMode |-> JsonString("sum-us"),
   complexity |-> JsonString("Moyenne"), uncertainty |-> JsonString("élevée"),
   risk |-> JsonString("moyen"), size |-> JsonString("GRAND"),
   effort |-> JsonString("beaucoup")]
ImportedBare ==
  [id |-> JsonAbsent, uuid |-> JsonAbsent, name |-> JsonString(""),
   type |-> JsonString("epic"), parentFeatureId |-> JsonAbsent,
   complexityMode |-> JsonAbsent,
   complexity |-> JsonAbsent, uncertainty |-> JsonAbsent, risk |-> JsonAbsent,
   size |-> JsonAbsent, effort |-> JsonAbsent]
ImportedOddLabel ==
  [id |-> JsonAbsent, uuid |-> JsonString("u2"), name |-> JsonString("Payments"),
   type |-> JsonString("feature"), parentFeatureId |-> JsonAbsent,
   complexityMode |-> JsonString("feature-only"),
   complexity |-> JsonString("constructor"), uncertainty |-> JsonString("totale"),
   risk |-> JsonNumber(12), size |-> JsonString(""), effort |-> JsonNumber(100)]
ImportedRecordInputs == {ImportedStory, ImportedLegacy, ImportedBare, ImportedOddLabel}

\* the arrays importFromJson is called with
ImportInputs ==
  UNION {[1..n -> ImportedRecordInputs] : n \in 0..MaxImportLen}

BoardUnchanged == UNCHANGED <<sprints, positions, dependencies>>

createEstimation(estimation) ==
  /\ ids.est < MaxEstimationIds
  /\ estimations' =
       Append(estimations,
              Estimation(generateId("e", ids.est), generateId("u", ids.uuid),
                         estimation.name, estimation.type, estimation.parentFeatureId,
                         estimation.complexityMode, estimation.ratings))
  /\ ids' = [ids EXCEPT !.est = @ + 1, !.uuid = @ + 1]
  /\ last' = NoCall
  /\ BoardUnchanged
  /\ SettingsUnchanged
  /\ FormUnchanged

deleteEstimation(id) ==
  /\ estimations' = SelectSeq(estimations, LAMBDA e : e.id # id)
  /\ last' = NoCall
  /\ UNCHANGED ids
  /\ BoardUnchanged
  /\ SettingsUnchanged
  /\ FormUnchanged

updateEstimation(id, updates) ==
  /\ \E i \in 1..Len(estimations) : estimations[i].id = id
  /\ estimations' =
       [i \in 1..Len(estimations) |->
          IF estimations[i].id = id
          THEN Estimation(estimations[i].id, estimations[i].uuid, updates.name,
                          updates.type, updates.parentFeatureId,
                          updates.complexityMode, updates.ratings)
          ELSE estimations[i]]
  /\ last' = NoCall
  /\ UNCHANGED ids
  /\ BoardUnchanged
  /\ SettingsUnchanged
  /\ FormUnchanged

(***************************************************************************)
(* EstimationFormComponent: the form data and its save.  The form edits    *)
(* the estimation it is given (a sequence of length 0 for a new one).      *)
(***************************************************************************)
initializeForm(estimation) ==
  IF estimation # <<>>
  THEN LET e == estimation[1]
       IN  [name |-> e.name,
            type |-> IF e.type = Undefined THEN "user-story" ELSE e.type,
            parentFeatureId |-> IF e.parentFeatureId = Undefined THEN ""
                                ELSE e.parentFeatureId,
            complexityMode |-> IF e.complexityMode = Undefined THEN "feature-only"
                               ELSE e.complexityMode,
            complexity |-> e.complexity, uncertainty |-> e.uncertainty,
            risk |-> e.risk, size |-> e.size, effort |-> e.effort]
  ELSE [name |-> "", type |-> "user-story", parentFeatureId |-> "",
        complexityMode |-> "feature-only",
        complexity |-> 0, uncertainty |-> 0, risk |-> 0, size |-> 0, effort |-> 0]

\* the numeric fields of onJsonChange: a number is clamped, anything else
\* leaves the field as it is
ClampedField(current, parsedValue) ==
  IF parsedValue.t = "number" THEN Max(0, Min(100, parsedValue.v)) ELSE current

\* onJsonChange: the form data after the JSON editor content `parsed`
onJsonChange(formData, parsed) ==
  [name |-> IF parsed.name.t = "string" THEN parsed.name.v ELSE formData.name,
   type |-> IF parsed.type = JsonString("user-story") \/ parsed.type = JsonString("feature")
            THEN parsed.type.v ELSE formData.type,
   parentFeatureId |-> IF parsed.parentFeatureId.t = "string"
                       THEN parsed.parentFeatureId.v ELSE formData.parentFeatureId,
   complexityMode |-> IF \/ parsed.complexityMode = JsonString("feature-only")
                         \/ parsed.complexityMode = JsonString("sum-us")
                      THEN parsed.complexityMode.v ELSE formData.complexityMode,
   complexity |-> ClampedField(formData.complexity, parsed.complexity),
   uncertainty |-> ClampedField(formData.uncertainty, parsed.uncertainty),
   risk |-> ClampedField(formData.risk, parsed.risk),
   size |-> ClampedField(formData.size, parsed.size),
   effort |-> ClampedField(formData.effort, parsed.effort)]

\* onFieldChange after a slider of the evaluation tab was moved to `value`
onFieldChange(formData, axis, value) == [formData EXCEPT ![axis] = value]

\* the data object saveEstimation hands to the service
FormSaveData(formData) ==
  [name |-> formData.name, type |-> formData.type,
   parentFeatureId |-> IF formData.parentFeatureId = "" THEN Undefined
                       ELSE formData.parentFeatureId,
   complexityMode |-> IF formData.type = "feature" THEN formData.complexityMode
                      ELSE Undefined,
   ratings |-> <<formData.complexity, formData.uncertainty, formData.risk,
                 formData.size, formData.effort>>]

\* saveEstimation, run by the debounce timer with the form data of the moment
saveEstimation(estimation, formData) ==
  /\ formData.name # ""
  /\ IF estimation # <<>>
     THEN updateEstimation(estimation[1].id, FormSaveData(formData))
     ELSE createEstimation(FormSaveData(formData))

\* the edits made in the form before it is saved: a JSON editor content with
\* out-of-range numbers and the stored feature as parent, one that switches the item to a sum-us feature and
\* gives strings for ratings, and a slider moved to a value of its range
JsonEditorInputs ==
  {[name |-> JsonString("Edited"), type |-> JsonAbsent, parentFeatureId |-> JsonString("e2"),
    complexityMode |-> JsonAbsent,
    complexity |-> JsonNumber(150), uncertainty |-> JsonNumber(-20),
    risk |-> JsonNumber(60), size |-> JsonAbsent, effort |-> JsonNumber(100)],
   [name |-> JsonNumber(7), type |-> JsonString("feature"),
    parentFeatureId |-> JsonString(""), complexityMode |-> JsonString("sum-us"),
    complexity |-> JsonString("high"), uncertainty |-> JsonAbsent,
    risk |-> JsonAbsent, size |-> JsonAbsent, effort |-> JsonAbsent]}
SliderInputs == {[axis |-> "risk", value |-> 75], [axis |-> "size", value |-> 0]}

\* the form data after one edit of the form opened on `estimation`
EditedForms(estimation) ==
  {onJsonChange(initializeForm(estimation), parsed) : parsed \in JsonEditorInputs}
    \cup {onFieldChange(initializeForm(estimation), s.axis, s.value) : s \in SliderInputs}

\* importFromJson on a text that parses to the array `imported`; the call,
\* the store it found and the counts it returned are recorded in last
importFromJson(imported) ==
  /\ ids.est + Len(imported) <= MaxEstimationIds
  /\ LET existing == estimations
         result == MergeImported(NewMap(<<>>, existing), validEstimations(imported), 0, 0)
     IN  /\ estimations' = result.merged
         /\ last' = [op |-> "importFromJson", imported |-> imported,
                     existing |-> existing,
                     result |-> [added |-> result.added, updated |-> result.updated]]
  /\ ids' = [ids EXCEPT !.est = @ + Len(imported),
                        !.uuid = @ + GeneratedUuids(imported, Len(imported))]
  /\ BoardUnchanged
  /\ SettingsUnchanged
  /\ FormUnchanged

(***************************************************************************)
(* The item store: creation, deletion, import of an array of records and   *)
(* re-import of the store's own export.                                    *)
(***************************************************************************)
NextImport ==
  \/ \E estimation \in EstimationInputs : createEstimation(estimation)
  \/ \E i \in 1..Len(estimations) : deleteEstimation(estimations[i].id)
  \/ \E imported \in ImportInputs : importFromJson(imported)
  \/ importFromJson(exportToJson)

SpecImport == Init /\ [][NextImport]_vars

(***************************************************************************)
(* The estimation form: an item of the store (or a new one) is opened,     *)
(* edited once through the JSON editor or a slider, and saved; items are   *)
(* deleted from the list.                                                  *)
(***************************************************************************)
NextForm ==
  \/ \E i \in 1..Len(estimations) : \E formData \in EditedForms(<<estimations[i]>>) :
        saveEstimation(<<estimations[i]>>, formData)
  \/ \E formData \in EditedForms(<<>>) : saveEstimation(<<>>, formData)
  \/ \E i \in 1..Len(estimations) : deleteEstimation(estimations[i].id)

SpecForm == Init /\ [][NextForm]_vars

(***************************************************************************)
(* The advisories of the items of the store: items are created and deleted *)
(* and getRecommendations is called for a stored item, directly or by the  *)
(* form opened on it.                                                      *)
(***************************************************************************)
\* the items created: ratings on both sides of the bands 50 and 75 and of
\* the averages 25, 30 and 40, as user stories (children of the stored
\* feature or orphans) and as features
AdviceInputs ==
  {[name |-> "Large", type |-> "user-story", parentFeatureId |-> "e2",
    complexityMode |-> Undefined, ratings |-> <<0, 0, 0, 100, 0>>],
   [name |-> "Bands", type |-> "user-story", parentFeatureId |-> Undefined,
    complexityMode |-> Undefined, ratings |-> <<49, 50, 74, 75, 0>>],
   [name |-> "Epic", type |-> "feature", parentFeatureId |-> Undefined,
    complexityMode |-> "feature-only", ratings |-> <<50, 49, 75, 74, 100>>],
   [name |-> "Small", type |-> "user-story", parentFeatureId |-> "e2",
    complexityMode |-> Undefined, ratings |-> <<25, 25, 25, 25, 25>>],
   [name |-> "Medium", type |-> "user-story", parentFeatureId |-> "e2",
    complexityMode |-> Undefined, ratings |-> <<40, 40, 40, 40, 40>>],
   [name |-> "Plain", type |-> "feature", parentFeatureId |-> Undefined,
    complexityMode |-> "feature-only", ratings |-> <<40, 40, 40, 41, 40>>],
   [name |-> "Empty", type |-> "feature", parentFeatureId |-> Undefined,
    complexityMode |-> "sum-us", ratings |-> <<25, 25, 25, 25, 26>>]}

\* a direct call of getRecommendations for a stored item, recorded in last
recommend(estimation) ==
  /\ last' = [op |-> "getRecommendations", estimation |-> estimation,
              result |-> getRecommendations(estimation)]
  /\ UNCHANGED <<estimations, ids>>
  /\ BoardUnchanged
  /\ SettingsUnchanged
  /\ FormUnchanged

\* updateRecommendations of the form opened on a stored item, with the form
\* data of the moment, recorded in last
updateRecommendations(estimation, formData) ==
  /\ last' = [op |-> "updateRecommendations", estimation |-> estimation,
              formData |-> formData,
              result |-> FormRecommendations(<<estimation>>, formData)]
  /\ UNCHANGED <<estimations, ids>>
  /\ BoardUnchanged
  /\ SettingsUnchanged
  /\ FormUnchanged

\* the form data the form shows advisories for: as initialized (ngOnChanges)
\* and after a slider was moved (onFieldChange)
ShownForms(estimation) ==
  {initializeForm(<<estimation>>)}
    \cup {onFieldChange(initializeForm(<<estimation>>), s.axis, s.value) : s \in SliderInputs}

NextAdvice ==
  \/ \E data \in AdviceInputs : createEstimation(data)
  \/ \E i \in 1..Len(estimations) : deleteEstimation(estimations[i].id)
  \/ \E i \in 1..Len(estimations) : recommend(estimations[i])
  \/ \E i \in 1..Len(estimations) : \E formData \in ShownForms(estimations[i]) :
        updateRecommendations(estimations[i], formData)

SpecAdvice == Init /\ [][NextAdvice]_vars

(***************************************************************************)
(* The board over a store of six items: sprints are created and given a    *)
(* capacity, the user stories are assigned to sprints and released, and    *)
(* dependencies are created and removed between them.                      *)
(***************************************************************************)
InitPlanning ==
  /\ estimations = PlanningStore
  /\ sprints = DEFAULT_BOARD.sprints
  /\ positions = DEFAULT_BOARD.positions
  /\ dependencies = DEFAULT_BOARD.dependencies
  /\ dimensionWeights = getDefaultDimensionWeights
  /\ tShirtSizesConfig = getDefaultTShirtSizesConfig
  /\ ids = [sprint |-> 0, dep |-> 0, est |-> 6, uuid |-> 6]
  /\ last = NoCall
  /\ form = ClosedForm

\* capacities giving loads of exactly 60% and 100%, and loads inside each band
PlanningCapacityInputs == {<<>>, <<9>>, <<15>>, <<30>>}
PlannedIdInputs == {"e1", "e3", "e4"}

NextPlanning ==
  \/ createSprint(DEFAULT_SPRINT)
  \/ \E id \in SprintIdsOnBoard, capacity \in PlanningCapacityInputs :
        updateSprint(id, capacity)
  \/ \E e \in PlannedIdInputs, s \in SprintIdsOnBoard : assignToSprint(e, s)
  \/ \E e \in PlannedIdInputs : removeFromSprint(e)
  \/ \E s, t \in PlannedIdInputs, ty \in DependencyTypeInputs :
        s # t /\ addDependency(s, t, ty)
  \/ \E i \in 1..Len(dependencies) : removeDependency(dependencies[i].id)

SpecPlanning == InitPlanning /\ [][NextPlanning]_vars

(***************************************************************************)
(* Calls of the two recommendation queries, interleaved with operations on *)
(* the board and the store.  A call is recorded in last with its result;   *)
(* again tells that the step before was the same call.                     *)
(***************************************************************************)
callGetPlanningRecommendations ==
  /\ last' = [op |-> "getPlanningRecommendations",
              again |-> last.op = "getPlanningRecommendations",
              result |-> getPlanningRecommendations]
  /\ UNCHANGED <<estimations, ids>>
  /\ BoardUnchanged
  /\ SettingsUnchanged
  /\ FormUnchanged

callGetRecommendations(estimation) ==
  /\ last' = [op |-> "getRecommendations", estimation |-> estimation,
              again |-> last.op = "getRecommendations" /\ last.estimation = estimation,
              result |-> getRecommendations(estimation)]
  /\ UNCHANGED <<estimations, ids>>
  /\ BoardUnchanged
  /\ SettingsUnchanged
  /\ FormUnchanged

CallCapacityInputs == {<<9>>, <<30>>}
CallPlannedIdInputs == {"e1", "e3"}
CallDeletedIdInputs == {"e3", "e5"}

NextCalls ==
  \/ createSprint(DEFAULT_SPRINT)
  \/ \E id \in SprintIdsOnBoard, capacity \in CallCapacityInputs : updateSprint(id, capacity)
  \/ \E e \in CallPlannedIdInputs, s \in SprintIdsOnBoard : assignToSprint(e, s)
  \/ \E s, t \in CallPlannedIdInputs, ty \in DependencyTypeInputs :
        s # t /\ addDependency(s, t, ty)
  \/ \E id \in CallDeletedIdInputs : deleteEstimation(id)
  \/ callGetPlanningRecommendations
  \/ \E i \in 1..Len(estimations) : callGetRecommendations(estimations[i])

SpecCalls == InitPlanning /\ [][NextCalls]_vars

(***************************************************************************)
(* SettingsService: operations on the settings.                            *)
(***************************************************************************)
\* the tables the settings dialog saves: the six rows with their max fields
\* as edited
UserStoryTableInputs ==
  {getDefaultUserStoryTShirtSizes,
   <<[size |-> "XS", max |-> 2], [size |-> "S", max |-> 5], [size |-> "M", max |-> 13],
     [size |-> "L", max |-> 20], [size |-> "XL", max |-> 40],
     [size |-> "XXL", max |-> 100]>>,
   <<[size |-> "XS", max |-> 10], [size |-> "S", max |-> 5], [size |-> "M", max |-> 21],
     [size |-> "L", max |-> 55], [size |-> "XL", max |-> 100],
     [size |-> "XXL", max |-> 50]>>}
FeatureTableInputs ==
  {getDefaultFeatureTShirtSizes,
   <<[size |-> "XS", max |-> 15], [size |-> "S", max |-> 32], [size |-> "M", max |-> 84],
     [size |-> "L", max |-> 300], [size |-> "XL", max |-> 200],
     [size |-> "XXL", max |-> 270]>>}
TShirtSizesConfigInputs ==
  [userStory : UserStoryTableInputs, feature : FeatureTableInputs]

\* the weights the settings dialog saves (tenths)
DimensionWeightsInputs ==
  {getDefaultDimensionWeights,
   [complexity |-> 10, uncertainty |-> 10, risk |-> 10, size |-> 10, effort |-> 10],
   [complexity |-> 0, uncertainty |-> 20, risk |-> 20, size |-> 10, effort |-> 10],
   [complexity |-> 1, uncertainty |-> 50, risk |-> 3, size |-> 30, effort |-> 7],
   [complexity |-> 0, uncertainty |-> 0, risk |-> 0, size |-> 0, effort |-> 0]}

\* the point values (tenths) and item types the classifier is called with
PointsInputs ==
  {0, 20, 30, 31, 50, 80, 100, 210, 550, 1000, 1800, 1801, 2000, 2700, 2701, 3770}
TypeInputs == {"user-story", "feature", Undefined}

StoreUnchanged == UNCHANGED <<estimations, ids>>

updateDimensionWeights(weights) ==
  /\ dimensionWeights' = weights
  /\ last' = NoCall
  /\ UNCHANGED tShirtSizesConfig
  /\ StoreUnchanged
  /\ BoardUnchanged
  /\ FormUnchanged

updateTShirtSizesConfig(config) ==
  /\ tShirtSizesConfig' = config
  /\ last' = NoCall
  /\ UNCHANGED dimensionWeights
  /\ StoreUnchanged
  /\ BoardUnchanged
  /\ FormUnchanged

resetToDefault ==
  /\ dimensionWeights' = getDefaultDimensionWeights
  /\ tShirtSizesConfig' = getDefaultTShirtSizesConfig
  /\ last' = NoCall
  /\ StoreUnchanged
  /\ BoardUnchanged
  /\ FormUnchanged

\* a call of getUserStoryTShirtSizeByPoints / getFeatureTShirtSizeByPoints /
\* getTShirtSizeByPoints; the call and the entry it returned are recorded
sizeByPoints(points, type) ==
  /\ last' = [op |-> "getTShirtSizeByPoints", points |-> points, type |-> type,
              result |-> getTShirtSizeByPoints(points, type)]
  /\ SettingsUnchanged
  /\ FormUnchanged
  /\ StoreUnchanged
  /\ BoardUnchanged

\* the ratings shown in the form and the radar chart: sums of 92 and 175
\* score exactly 3.0 and 8.0 points, the others fall inside a bucket
RatingsInputs ==
  {<<0, 0, 0, 0, 0>>, <<18, 18, 18, 19, 19>>, <<20, 20, 20, 20, 20>>,
   <<35, 35, 35, 35, 35>>, <<50, 50, 50, 50, 50>>, <<100, 0, 75, 0, 0>>,
   <<100, 100, 100, 100, 100>>}

RatingsRecord(ratings) ==
  [complexity |-> ratings[1], uncertainty |-> ratings[2], risk |-> ratings[3],
   size |-> ratings[4], effort |-> ratings[5]]

\* the form or the radar chart renders the size of the ratings it holds; the
\* points it scored, the table it read and the entry it showed are recorded
getTShirtSize(view, ratings) ==
  /\ last' = [op |-> "getTShirtSize", view |-> view,
              points |-> calculatePointsFromAverage(getCurseAverage(RatingsRecord(ratings))),
              sizes |-> IF view = "form" THEN FormTShirtSizes ELSE RadarTShirtSizes,
              result |-> IF view = "form"
                         THEN FormGetTShirtSize(RatingsRecord(ratings))
                         ELSE RadarGetTShirtSize(RatingsRecord(ratings))]
  /\ SettingsUnchanged
  /\ FormUnchanged
  /\ StoreUnchanged
  /\ BoardUnchanged

(***************************************************************************)
(* The settings: saving weights and tables, reset, and size lookups.       *)
(***************************************************************************)
NextSettings ==
  \/ \E weights \in DimensionWeightsInputs : updateDimensionWeights(weights)
  \/ \E config \in TShirtSizesConfigInputs : updateTShirtSizesConfig(config)
  \/ resetToDefault
  \/ \E points \in PointsInputs, type \in TypeInputs : sizeByPoints(points, type)
  \/ \E view \in {"form", "radar"}, ratings \in RatingsInputs :
        getTShirtSize(view, ratings)

SpecSettings == Init /\ [][NextSettings]_vars

(***************************************************************************)
(* Sprint status, load and dependency claims.                              *)
(***************************************************************************)
SprintsOnBoard == {sprints[i] : i \in 1..Len(sprints)}

\* an id no item of the store has and no operation places
GhostId == "e9"
ItemIdUniverse == EstimationIdInputs \cup {GhostId}

Placed(estimationId) == \E i \in 1..Len(positions) : positions[i].estimationId = estimationId
SprintIdsOf(estimationId) ==
  {positions[i].sprintId : i \in {j \in 1..Len(positions) :
                                    positions[j].estimationId = estimationId}}

\* the items assigned to a sprint: placed with that sprint id and in the store
AssignedIds(sprintId) ==
  {e.id : e \in {x \in Range(estimations) :
                   \E i \in 1..Len(positions) : /\ positions[i].estimationId = x.id
                                                /\ positions[i].sprintId = sprintId}}

\* C1: in every reachable board state the status of each sprint is the first
\* match of: empty (no item), at-risk (unresolved dependencies > 0), overloaded
\* (capacity set and load > 100), warning (capacity set and load > 85), balanced;
\* so unresolved dependencies together with a load above 100 give at-risk.
StatusByPrecedence(s, info) ==
  IF info.itemCount = 0 THEN "empty"
  ELSE IF info.unresolvedDependencies > 0 THEN "at-risk"
  ELSE IF s.capacity # <<>> /\ MoreThan(info.loadPercentage, 100) THEN "overloaded"
  ELSE IF s.capacity # <<>> /\ MoreThan(info.loadPercentage, 85) THEN "warning"
  ELSE "balanced"

C1_StatusPrecedence ==
  \A s \in SprintsOnBoard :
    LET info == getSprintInfo(s.id)
    IN  /\ info.status = StatusByPrecedence(s, info)
        /\ (info.unresolvedDependencies > 0 /\ MoreThan(info.loadPercentage, 100))
             => info.status = "at-risk"

C1_Witness ==
  \E s \in SprintsOnBoard :
    LET info == getSprintInfo(s.id)
    IN  /\ info.unresolvedDependencies > 0
        /\ MoreThan(info.loadPercentage, 100)
        /\ info.status = "at-risk"

\* C2: isDependencyResolved(dep) is true exactly when both endpoints have a
\* board placement and the two placements either carry the same sprintId (both
\* undefined included) or both carry a defined one; an endpoint without a
\* placement makes it false.
ResolvedByRule(sourceId, targetId) ==
  /\ Placed(sourceId)
  /\ Placed(targetId)
  /\ \/ SprintIdsOf(sourceId) = SprintIdsOf(targetId)
     \/ Undefined \notin (SprintIdsOf(sourceId) \cup SprintIdsOf(targetId))

C2_DependencyResolved ==
  \A sourceId \in ItemIdUniverse, targetId \in ItemIdUniverse :
    LET dep == [id |-> "d", sourceId |-> sourceId, targetId |-> targetId,
                type |-> "blocks"]
    IN  /\ isDependencyResolved(dep) <=> ResolvedByRule(sourceId, targetId)
        /\ (~Placed(sourceId) \/ ~Placed(targetId)) => ~isDependencyResolved(dep)

C2_Witness ==
  \E i \in 1..Len(dependencies) :
    /\ isDependencyResolved(dependencies[i])
    /\ SprintIdsOf(dependencies[i].sourceId) # SprintIdsOf(dependencies[i].targetId)

\* C3: usedPoints of a sprint is the sum over its assigned items of the item's
\* ceilinged total, a feature in sum-us mode counting for the Feature
\* Aggregator total (the sum of its children's ceilinged points).
ItemTotalPoints(e) ==
  IF e.type = "feature" /\ e.complexityMode = "sum-us"
  THEN getFeatureTotalPoints(e)
  ELSE getComplexityPointsCeil(e)

C3_UsedPointsWithFeatureTotals ==
  \A s \in SprintsOnBoard :
    LET items == getSprintItems(s.id)
    IN  getSprintInfo(s.id).usedPoints
          = SumSeq([i \in 1..Len(items) |-> ItemTotalPoints(items[i])])

\* C4: loadPercentage is usedPoints / capacity * 100 when the capacity is set and
\* > 0 and is 0 otherwise; a sprint without capacity is never overloaded or
\* warning; capacity 20 with one item of 22 points and no unresolved dependency
\* has a load of 110 and is overloaded.
C4_LoadPercentage ==
  \A s \in SprintsOnBoard :
    LET info == getSprintInfo(s.id)
        load == info.loadPercentage
        items == getSprintItems(s.id)
    IN  /\ load.den > 0
        /\ IF s.capacity # <<>> /\ s.capacity[1] > 0
           THEN load.num * s.capacity[1] = info.usedPoints * 100 * load.den
           ELSE load.num = 0
        /\ s.capacity = <<>> => info.status \notin {"overloaded", "warning"}
        /\ (/\ s.capacity = <<20>>
            /\ Len(items) = 1
            /\ getComplexityPointsCeil(items[1]) = 22
            /\ info.unresolvedDependencies = 0)
           => /\ load.num = 110 * load.den
              /\ info.status = "overloaded"

C4_Witness ==
  \E s \in SprintsOnBoard :
    LET info == getSprintInfo(s.id)
        items == getSprintItems(s.id)
    IN  /\ s.capacity = <<20>>
        /\ Len(items) = 1
        /\ getComplexityPointsCeil(items[1]) = 22
        /\ info.unresolvedDependencies = 0
        /\ info.status = "overloaded"

C6_DeleteSprintUnassigns ==
  [][last'.op = "deleteSprint" =>
       /\ last'.id \notin {sprints'[i].id : i \in 1..Len(sprints')}
       /\ sprints' = SelectSeq(sprints, LAMBDA s : s.id # last'.id)
       /\ Len(positions') = Len(positions)
       /\ \A i \in 1..Len(positions) :
            IF positions[i].sprintId = last'.id
            THEN /\ positions'[i].estimationId = positions[i].estimationId
                 /\ positions'[i].position = positions[i].position
                 /\ positions'[i].sprintId = Undefined
            ELSE positions'[i] = positions[i]
       /\ dependencies' = dependencies
       /\ estimations' = estimations]_vars

C6_Witness ==
  /\ last.op = "deleteSprint"
  /\ last.released # {}
  /\ \A e \in last.released : Placed(e) /\ SprintIdsOf(e) = {Undefined}
  /\ \E i \in 1..Len(positions) : positions[i].sprintId # Undefined

\* C7: after any sequence of placement operations from the empty board there is
\* at most one placement per estimation id, and getUnplannedItems returns an
\* item exactly when it has no placement.
C7_OnePlacementPerItem ==
  /\ \A i, j \in 1..Len(positions) :
       positions[i].estimationId = positions[j].estimationId => i = j
  /\ \A e \in Range(estimations) :
       e \in Range(getUnplannedItems) <=> ~Placed(e.id)

C7_Witness ==
  /\ Len(positions) = 1
  /\ positions[1].sprintId # Undefined
  /\ positions[1].position # [x |-> 0, y |-> 0]
  /\ Len(getUnplannedItems) = 1

(***************************************************************************)
(* Import, export and size lookup claims.                                  *)
(***************************************************************************)
ImportCalled == last.op = "importFromJson"

\* the uuids of a list of stored items
UuidsOf(list) == {list[i].uuid : i \in 1..Len(list)}

\* the imported element k carries a uuid, and that uuid is the uuid of a
\* stored item or, when earlier counts, of an earlier element of the array
CarriesKnownUuid(imported, existing, k, earlier) ==
  /\ JsonTruthy(imported[k].uuid)
  /\ \/ imported[k].uuid.v \in UuidsOf(existing)
     \/ /\ earlier
        /\ \E j \in 1..(k - 1) : imported[j].uuid = imported[k].uuid

\* the name, type and ratings an imported element gives the item it becomes
SameContent(item, e) ==
  LET converted == ImportedEstimation(e, item.id, item.uuid)
  IN  [item EXCEPT !.id = "", !.uuid = ""] = [converted EXCEPT !.id = "", !.uuid = ""]

\* the last element of the array carrying the uuid
LastCarrying(imported, uuid) ==
  CHOOSE k \in 1..Len(imported) :
    /\ imported[k].uuid = JsonString(uuid)
    /\ \A j \in (k + 1)..Len(imported) : imported[j].uuid # JsonString(uuid)

\* The merge law of an import call that found the store `existing` and left
\* the store `merged`: elements carrying a known uuid are counted as updated
\* and overwrite in place, the others are counted as added and appended in
\* the order of the array, untouched items stay as they are.
MergeLaw(imported, existing, merged, result, earlier) ==
  LET known == {k \in 1..Len(imported) :
                  CarriesKnownUuid(imported, existing, k, earlier)}
      fresh == SelectSeq([k \in 1..Len(imported) |-> k], LAMBDA k : k \notin known)
      importedUuids == {imported[k].uuid.v :
                          k \in {j \in 1..Len(imported) : JsonTruthy(imported[j].uuid)}}
  IN  /\ result.updated = Cardinality(known)
      /\ result.added = Len(fresh)
      /\ Len(merged) = Len(existing) + result.added
      /\ \A i \in 1..Len(existing) :
           /\ merged[i].uuid = existing[i].uuid
           /\ merged[i].id = existing[i].id
           /\ IF existing[i].uuid \in importedUuids
              THEN SameContent(merged[i],
                               imported[LastCarrying(imported, existing[i].uuid)])
              ELSE merged[i] = existing[i]
      /\ \A n \in 1..Len(fresh) :
           LET item == merged[Len(existing) + n]
               e == imported[fresh[n]]
           IN  /\ item.id \notin {existing[i].id : i \in 1..Len(existing)}
               /\ IF JsonTruthy(e.uuid)
                  THEN /\ item.uuid = e.uuid.v
                       /\ SameContent(item, imported[LastCarrying(imported, e.uuid.v)])
                  ELSE /\ item.uuid \notin UuidsOf(existing) \cup importedUuids
                       /\ SameContent(item, e)

\* C8 (as stated): importFromJson merges by uuid: an element whose uuid is in
\* the store overwrites that item in place (same position, local id kept) and
\* counts as updated; an element whose uuid is not in the store is appended and
\* counts as added; stored items whose uuid is not imported are unchanged.
C8_MergeByStoreUuid ==
  ImportCalled =>
    MergeLaw(last.imported, last.existing, estimations, last.result, FALSE)

\* C8 (amended): as above, except that an element whose uuid was carried by
\* an earlier element of the same array also overwrites (the entry that
\* element made) and counts as updated; only an element whose uuid is neither
\* in the store nor carried earlier in the array, or that has no uuid, is
\* appended and counts as added.
C8_MergeByUuid ==
  ImportCalled =>
    MergeLaw(last.imported, last.existing, estimations, last.result, TRUE)

\* an import that overwrote a stored item, appended a new one and left a
\* stored item untouched
C8_Witness ==
  /\ ImportCalled
  /\ last.result.updated >= 1
  /\ last.result.added >= 1
  /\ \E i \in 1..Len(last.existing) :
       /\ estimations[i] # last.existing[i]
       /\ estimations[i].id = last.existing[i].id
  /\ \E i \in 1..Len(last.existing) : estimations[i] = last.existing[i]

\* C9: importing the output of exportToJson back into the same store reports
\* added = 0 and updated = the number of items, and leaves every item's local
\* id, uuid, type, five ratings, parentFeatureId and complexityMode as they
\* were before the export.
C9_RoundTrip ==
  (ImportCalled /\ last.imported = StringifyEstimations(last.existing)) =>
    /\ last.result = [added |-> 0, updated |-> Len(last.existing)]
    /\ Len(estimations) = Len(last.existing)
    /\ \A i \in 1..Len(last.existing) :
         /\ estimations[i].id = last.existing[i].id
         /\ estimations[i].uuid = last.existing[i].uuid
         /\ estimations[i].type = last.existing[i].type
         /\ estimations[i].complexity = last.existing[i].complexity
         /\ estimations[i].uncertainty = last.existing[i].uncertainty
         /\ estimations[i].risk = last.existing[i].risk
         /\ estimations[i].size = last.existing[i].size
         /\ estimations[i].effort = last.existing[i].effort
         /\ estimations[i].parentFeatureId = last.existing[i].parentFeatureId
         /\ estimations[i].complexityMode = last.existing[i].complexityMode

\* the table a lookup of the given type reads
TableOf(type) ==
  IF type = "feature" THEN tShirtSizesConfig.feature ELSE tShirtSizesConfig.userStory

\* C10: getTShirtSizeByPoints(points, kind) reads the table of the kind
\* (the feature table for 'feature', the user-story table otherwise) and
\* returns the first entry, in ascending max order, whose max >= points;
\* when no entry has max >= points it returns the last (highest) entry.
C10_FirstFittingAscending ==
  last.op = "getTShirtSizeByPoints" =>
    LET sizes == TableOf(last.type)
        entries == {sizes[i] : i \in 1..Len(sizes)}
        fitting == {t \in entries : t.max * 10 >= last.points}
    IN  /\ last.result \in entries
        /\ IF fitting # {}
           THEN /\ last.result \in fitting
                /\ \A t \in fitting : last.result.max <= t.max
           ELSE \A t \in entries : t.max <= last.result.max

\* a table that is strictly ascending by max
Ascending(sizes) == \A i, j \in 1..Len(sizes) : i < j => sizes[i].max < sizes[j].max

\* C11: wherever a point value is classified into a size bucket, a value
\* exactly equal to an entry's max is classified into that entry, not the next
\* one up (8 points with S.max = 8 is S): in the settings classifier (on an
\* ascending table) and in the size shown by the form and the radar chart.
C11_BoundaryInclusive ==
  /\ (last.op = "getTShirtSizeByPoints" /\ Ascending(TableOf(last.type))) =>
       \A t \in Range(TableOf(last.type)) :
         last.points = t.max * 10 => last.result = t
  /\ last.op = "getTShirtSize" =>
       \A t \in Range(last.sizes) : last.points = t.max * 10 => last.result = t

\* C12: in every reachable settings state (defaults, tables saved from the
\* settings dialog, reset) the user-story table and the feature table are
\* non-empty and strictly ascending by max, so the last entry is the highest.
C12_TablesAscending ==
  \A sizes \in {tShirtSizesConfig.userStory, tShirtSizesConfig.feature} :
    /\ sizes # <<>>
    /\ Ascending(sizes)
    /\ \A i \in 1..Len(sizes) : sizes[i].max <= sizes[Len(sizes)].max

\* C13: in every reachable settings state each of the five dimension weights
\* is > 0 (so the total weight is never 0); the initial weights are 1.5, 2, 2,
\* 1, 1 and no save from the settings dialog stores a weight <= 0.
C13_WeightsPositive ==
  /\ dimensionWeights.complexity > 0
  /\ dimensionWeights.uncertainty > 0
  /\ dimensionWeights.risk > 0
  /\ dimensionWeights.size > 0
  /\ dimensionWeights.effort > 0
  /\ getDefaultDimensionWeights =
       [complexity |-> 15, uncertainty |-> 20, risk |-> 20, size |-> 10, effort |-> 10]

\* C14: after any sequence of createEstimation, updateEstimation (form saves
\* after slider or JSON editor edits) and importFromJson, every stored item's
\* five ratings lie in [0,100].
C14_RatingsInRange ==
  \A i \in 1..Len(estimations) :
    \A axis \in {"complexity", "uncertainty", "risk", "size", "effort"} :
      estimations[i][axis] >= 0 /\ estimations[i][axis] <= 100

\* the user stories of the store whose parentFeatureId is featureId, as the
\* set of their indices
ChildIndices(featureId) ==
  {i \in 1..Len(estimations) :
     estimations[i].type = "user-story" /\ estimations[i].parentFeatureId = featureId}

\* the sum of the ceilinged points of the items at the indices S, scored with
\* the weighted scorer (weighted = TRUE) or with the list's own average
RECURSIVE SumCeilOver(_, _)
SumCeilOver(S, weighted) ==
  IF S = {} THEN 0
  ELSE LET i == CHOOSE j \in S : TRUE
           points == IF weighted THEN calculateComplexityPoints(estimations[i])
                     ELSE ListCalculateComplexityPoints(estimations[i])
       IN  (points + 9) \div 10 + SumCeilOver(S \ {i}, weighted)

\* the sum of the raw points (tenths) of the items at the indices S
RECURSIVE SumRawOver(_)
SumRawOver(S) ==
  IF S = {} THEN 0
  ELSE LET i == CHOOSE j \in S : TRUE
       IN  calculateComplexityPoints(estimations[i]) + SumRawOver(S \ {i})

\* C15: for every feature of the store, getFeatureTotalPoints is the sum of
\* the ceilinged points of all the user stories whose parentFeatureId is the
\* feature's id when the feature is in sum-us mode, and the ceilinged points
\* of the feature itself otherwise, in both declarations of the list (each
\* with its own scoring function); the children counted are all the children
\* of the store, whatever the search query shows.
C15_FeatureTotalPoints ==
  \A k \in 1..Len(estimations) :
    LET feature == estimations[k]
        all == ChildIndices(feature.id)
    IN  feature.type = "feature" =>
          /\ getFeatureTotalPoints(feature) =
               IF feature.complexityMode = "sum-us" THEN SumCeilOver(all, TRUE)
               ELSE (calculateComplexityPoints(feature) + 9) \div 10
          /\ ListGetFeatureTotalPoints(feature) =
               IF feature.complexityMode = "sum-us" THEN SumCeilOver(all, FALSE)
               ELSE (ListCalculateComplexityPoints(feature) + 9) \div 10
          /\ \A searchQuery \in SearchInputs :
               Len(getChildUserStories(feature.id, searchQuery)) <= Cardinality(all)

\* a sum-us feature with three children of which the search shows only one,
\* whose total is the sum of the three ceilinged scores and differs from the
\* ceiling of the raw sum and from the feature's own score
C15_Witness ==
  \E k \in 1..Len(estimations) :
    LET feature == estimations[k]
        all == ChildIndices(feature.id)
    IN  /\ feature.type = "feature" /\ feature.complexityMode = "sum-us"
        /\ Cardinality(all) = 3
        /\ Len(getChildUserStories(feature.id, "check")) = 1
        /\ getFeatureTotalPoints(feature) = SumCeilOver(all, TRUE)
        /\ getFeatureTotalPoints(feature) # (SumRawOver(all) + 9) \div 10
        /\ getFeatureTotalPoints(feature) # getComplexityPointsCeil(feature)

\* the Feature threshold table applied to the total points of a feature
FeatureBucketOfTotal(feature) ==
  getTShirtSizeByPoints(getFeatureTotalPoints(feature) * 10, "feature").size

\* C16: for every feature of the store, in both complexity modes, each view
\* that shows the feature's size (the two declarations of the list and the
\* board card) shows the bucket the Feature threshold table gives for the
\* feature's total points.
C16_FeatureTableOnTotal ==
  \A k \in 1..Len(estimations) :
    LET feature == estimations[k]
    IN  feature.type = "feature" =>
          /\ getFeatureTShirtSize(feature).size = FeatureBucketOfTotal(feature)
          /\ ListGetFeatureTShirtSize(feature).size = FeatureBucketOfTotal(feature)
          /\ calculateMetrics(feature).tShirtSize.size = FeatureBucketOfTotal(feature)

\* C16 restricted to the board card
C16_BoardCard ==
  \A k \in 1..Len(estimations) :
    estimations[k].type = "feature" =>
      calculateMetrics(estimations[k]).tShirtSize.size = FeatureBucketOfTotal(estimations[k])

\* C16 restricted to the list of estimation-list.component.ts
C16_ListLocalTable ==
  \A k \in 1..Len(estimations) :
    estimations[k].type = "feature" =>
      ListGetFeatureTShirtSize(estimations[k]).size = FeatureBucketOfTotal(estimations[k])

Dimensions == {"complexity", "uncertainty", "risk", "size", "effort"}

\* the advisories of a list that are tagged with the dimension d
TaggedWith(recommendations, d) ==
  SelectSeq(recommendations, LAMBDA r : r.dimension = d)

\* the item of the call is a feature in sum-us mode
IsSumUsFeature(e) == e.type = "feature" /\ e.complexityMode = "sum-us"

\* the band rule for the rating of dimension d of the item e
BandRule(e, recommendations, d) ==
  LET tagged == TaggedWith(recommendations, d)
  IN  /\ e[d] >= 75 => Len(tagged) = 1 /\ tagged[1].type = "danger"
      /\ e[d] >= 50 /\ e[d] < 75 => Len(tagged) = 1 /\ tagged[1].type = "warning"
      /\ e[d] < 50 => tagged = <<>>

\* C17: a call of getRecommendations for an item that is not a sum-us
\* feature returns, for each of the five dimensions, exactly one advisory
\* tagged with it when the rating is >= 50 (danger from 75, warning in
\* [50,75)) and none when the rating is below 50, for user stories and for
\* features.
C17_DimensionBands ==
  last.op = "getRecommendations" /\ ~IsSumUsFeature(last.estimation) =>
    \A d \in Dimensions : BandRule(last.estimation, last.result, d)

\* a call for a feature with ratings 50, 49, 75, 74, 100: a warning for
\* complexity and size, a danger for risk and effort, nothing for uncertainty
C17_Witness ==
  /\ last.op = "getRecommendations"
  /\ last.estimation.type = "feature" /\ last.estimation.complexityMode = "feature-only"
  /\ last.estimation.complexity = 50 /\ last.estimation.uncertainty = 49
  /\ last.estimation.risk = 75 /\ last.estimation.size = 74
  /\ TaggedWith(last.result, "complexity")[1].type = "warning"
  /\ TaggedWith(last.result, "size")[1].type = "warning"
  /\ TaggedWith(last.result, "risk")[1].type = "danger"
  /\ TaggedWith(last.result, "uncertainty") = <<>>

\* a call for a user story with ratings 49, 50, 74, 75, 0: a warning for
\* uncertainty and risk, a danger for size, nothing for complexity and effort
C17_WitnessUserStory ==
  /\ last.op = "getRecommendations"
  /\ last.estimation.type = "user-story"
  /\ last.estimation.complexity = 49 /\ last.estimation.uncertainty = 50
  /\ last.estimation.risk = 74 /\ last.estimation.size = 75
  /\ TaggedWith(last.result, "uncertainty")[1].type = "warning"
  /\ TaggedWith(last.result, "risk")[1].type = "warning"
  /\ TaggedWith(last.result, "size")[1].type = "danger"
  /\ TaggedWith(last.result, "complexity") = <<>>
  /\ TaggedWith(last.result, "effort") = <<>>

\* the user stories of the store linked to the feature of id featureId
ChildrenOf(featureId) ==
  {estimations[i] : i \in ChildIndices(featureId)}

\* 1 when the condition holds, 0 otherwise
Indicator(condition) == IF condition THEN 1 ELSE 0

\* the advisories of a list with the given type and dimension
Advisories(recommendations, type, dimension) ==
  SelectSeq(recommendations, LAMBDA r : r.type = type /\ r.dimension = dimension)

\* five times the sum of the averages of the linked user stories
RECURSIVE ChildRatingTotal(_)
ChildRatingTotal(S) ==
  IF S = {} THEN 0
  ELSE LET i == CHOOSE j \in S : TRUE
       IN  RatingSum(estimations[i]) + ChildRatingTotal(S \ {i})

\* the list the rule for sum-us features prescribes for the feature of id
\* featureId: children only, nothing from the feature's own ratings
SumUsRule(featureId, recommendations) ==
  LET children == ChildrenOf(featureId)
      n == Cardinality(ChildIndices(featureId))
      total == ChildRatingTotal(ChildIndices(featureId))
      risky == \E c \in children : c.risk >= 75
      unsure == \E c \in children : c.uncertainty >= 75
      large == \E c \in children : c.size >= 75
      calm == total <= 150 * n /\ ~risky /\ ~unsure
  IN  IF n = 0
      THEN Len(recommendations) = 1 /\ recommendations[1].type = "info"
           /\ recommendations[1].dimension = Undefined
      ELSE /\ recommendations # <<>>
           /\ recommendations[1].type = "info"
           /\ recommendations[1].score = <<(2 * total + 5 * n) \div (10 * n)>>
           /\ Len(Advisories(recommendations, "danger", "risk")) = Indicator(risky)
           /\ Len(Advisories(recommendations, "warning", "uncertainty")) = Indicator(unsure)
           /\ Len(Advisories(recommendations, "warning", "size")) = Indicator(large)
           /\ Len(Advisories(recommendations, "success", Undefined)) = Indicator(calm)
           /\ Len(recommendations) =
                1 + Indicator(risky) + Indicator(unsure) + Indicator(large) + Indicator(calm)

\* C18: for a feature in sum-us mode the advisories come from the linked
\* user stories only (a single Info without children; otherwise the Info
\* with the average, a Danger iff a child has risk >= 75, a Warning iff a
\* child has uncertainty >= 75, a Warning iff a child has size >= 75, a
\* Success iff the average is <= 30 without risk or uncertainty flag), both
\* for a direct call of getRecommendations and for the advisories the form
\* shows.
C18_SumUsAdvisories ==
  /\ last.op = "getRecommendations" /\ IsSumUsFeature(last.estimation) =>
       SumUsRule(last.estimation.id, last.result)
  /\ last.op = "updateRecommendations" /\ IsSumUsFeature(last.formData) =>
       SumUsRule(last.estimation.id, last.result)

\* C18 for direct calls of getRecommendations only
C18_DirectCalls ==
  last.op = "getRecommendations" /\ IsSumUsFeature(last.estimation) =>
    SumUsRule(last.estimation.id, last.result)

\* a direct call for a sum-us feature with two children, one of them large,
\* whose average is 30: Info, size Warning and Success
C18_DirectWitness ==
  /\ last.op = "getRecommendations" /\ IsSumUsFeature(last.estimation)
  /\ Cardinality(ChildIndices(last.estimation.id)) = 2
  /\ ChildRatingTotal(ChildIndices(last.estimation.id)) = 300
  /\ Len(last.result) = 3
  /\ last.result[2].type = "warning" /\ last.result[3].type = "success"

\* the advisories of a list that have one of the given types
OfTypes(recommendations, types) ==
  SelectSeq(recommendations, LAMBDA r : r.type \in types)

\* the titles of the closing messages of the two catalogs
StrongSuccess == {"Estimation maîtrisée", "Feature bien calibrée"}
MildSuccess == {"Bonne estimation", "Bonne maîtrise"}

\* the closing rule for a returned list and the five-dimension average
\* ratingSum / 5 of the item it was computed for
ClosingRule(recommendations, ratingSum) ==
  LET successes == OfTypes(recommendations, {"success"})
      fired == OfTypes(recommendations, {"danger", "warning"}) # <<>>
  IN  /\ successes # <<>> => ~fired
      /\ ~fired =>
           /\ ratingSum <= 125 =>
                /\ Len(successes) = 1
                /\ recommendations[Len(recommendations)].type = "success"
                /\ recommendations[Len(recommendations)].title \in StrongSuccess
           /\ ratingSum > 125 /\ ratingSum <= 200 =>
                /\ Len(successes) = 1
                /\ recommendations[Len(recommendations)].type = "success"
                /\ recommendations[Len(recommendations)].title \in MildSuccess
           /\ ratingSum > 200 => successes = <<>>

\* C19: in every list getRecommendations returns, a success is present only
\* if the list holds no danger and no warning; when none fired, the closing
\* message is the strong success for an average <= 25, the mild success for
\* an average in (25,40] and absent above 40, and it is the last element.
C19_ClosingMessage ==
  last.op = "getRecommendations" =>
    /\ OfTypes(last.result, {"success"}) # <<>>
         => OfTypes(last.result, {"danger", "warning"}) = <<>>
    /\ ~IsSumUsFeature(last.estimation)
         => ClosingRule(last.result, RatingSum(last.estimation))

\* C19 for the items that are not sum-us features
C19_OutsideSumUs ==
  last.op = "getRecommendations" /\ ~IsSumUsFeature(last.estimation) =>
    ClosingRule(last.result, RatingSum(last.estimation))

\* C19, first part only: no list holds a success next to a danger or warning
C19_SuccessWithWarning ==
  last.op = "getRecommendations" =>
    (OfTypes(last.result, {"success"}) # <<>>
       => OfTypes(last.result, {"danger", "warning"}) = <<>>)

\* the advisories of a list tagged with the sprint of id sprintId
OfSprint(recommendations, sprintId) ==
  SelectSeq(recommendations, LAMBDA r : r.sprintId = sprintId)

\* the <<type, title>> pairs of a list of advisories, in order
Kinds(recommendations) ==
  [k \in 1..Len(recommendations) |-> <<recommendations[k].type, recommendations[k].title>>]

\* the items of the store placed in the sprint of id sprintId
ItemsIn(sprintId) ==
  {e \in {estimations[i] : i \in 1..Len(estimations)} :
     \E k \in 1..Len(positions) :
       positions[k].estimationId = e.id /\ positions[k].sprintId = sprintId}

\* the advisories the sprint rules prescribe for a sprint, in their order
SprintRule(sprint) ==
  LET info == getSprintInfo(sprint.id)
      load == info.loadPercentage
      over == load.num > 100 * load.den
      nearlyFull == load.num > 85 * load.den /\ load.num <= 100 * load.den
      balanced == info.status = "balanced" /\ load.num >= 60 * load.den
                  /\ load.num <= 85 * load.den
      unsure == Cardinality({e \in ItemsIn(sprint.id) : e.uncertainty >= 75}) >= 2
      risky == \E e \in ItemsIn(sprint.id) : e.risk >= 75
  IN  (IF over THEN <<(<<"danger", "Sprint surchargé">>)>> ELSE <<>>)
      \o (IF info.unresolvedDependencies > 0
          THEN <<(<<"danger", "Dépendances non résolues">>)>> ELSE <<>>)
      \o (IF nearlyFull THEN <<(<<"warning", "Sprint presque plein">>)>> ELSE <<>>)
      \o (IF balanced THEN <<(<<"success", "Sprint équilibré">>)>> ELSE <<>>)
      \o (IF unsure THEN <<(<<"warning", "Incertitude élevée">>)>> ELSE <<>>)
      \o (IF risky THEN <<(<<"danger", "Risques élevés">>)>> ELSE <<>>)

\* the ids of the sprints the advisories of a list are tagged with, in order
\* and without the repetitions of a run
RECURSIVE SprintOrder(_)
SprintOrder(recommendations) ==
  IF recommendations = <<>> THEN <<>>
  ELSE LET rest == SprintOrder(Tail(recommendations))
           id == Head(recommendations).sprintId
       IN  IF rest # <<>> /\ Head(rest) = id THEN rest ELSE <<id>> \o rest

\* the ids of the sprints of the board that have at least one advisory
SprintsWithAdvisories ==
  LET ids_ == [i \in 1..Len(sprints) |-> sprints[i].id]
  IN  SelectSeq(ids_, LAMBDA id : OfSprint(getPlanningRecommendations, id) # <<>>)

\* C20: for each sprint of the board, the advisories of
\* getPlanningRecommendations tagged with the sprint are exactly, each at
\* most once and in this order: Danger iff load > 100%, Danger iff
\* unresolved dependencies > 0, Warning iff 85% < load <= 100%, Success iff
\* the status is balanced and 60% <= load <= 85%, Warning iff at least two
\* items of the sprint have uncertainty >= 75, Danger iff an item of the
\* sprint has risk >= 75; and the sprints come in board order.
C20_SprintAdvisories ==
  /\ \A i \in 1..Len(sprints) :
       Kinds(OfSprint(getPlanningRecommendations, sprints[i].id)) = SprintRule(sprints[i])
  /\ SprintOrder(SelectSeq(getPlanningRecommendations, LAMBDA r : r.sprintId # Undefined))
       = SprintsWithAdvisories

\* two sprints with advisories: the first holds the risky story at 73% of
\* its capacity, the second the two unsure stories at exactly 60%
C20_Witness ==
  /\ Len(sprints) = 2
  /\ Kinds(OfSprint(getPlanningRecommendations, sprints[1].id))
       = <<(<<"success", "Sprint équilibré">>), <<"danger", "Risques élevés">>>>
  /\ getSprintInfo(sprints[2].id).loadPercentage = [num |-> 900, den |-> 15]
  /\ Kinds(OfSprint(getPlanningRecommendations, sprints[2].id))
       = <<(<<"success", "Sprint équilibré">>), <<"warning", "Incertitude élevée">>>>

\* a sprint loaded at exactly 100% with an unresolved dependency: the Danger
\* of the dependency, then the Warning of the load
C20_WitnessFull ==
  \E i \in 1..Len(sprints) :
    /\ getSprintInfo(sprints[i].id).loadPercentage = [num |-> 900, den |-> 9]
    /\ Kinds(OfSprint(getPlanningRecommendations, sprints[i].id))
         = <<(<<"danger", "Dépendances non résolues">>), <<"warning", "Sprint presque plein">>,
             <<"warning", "Incertitude élevée">>>>

\* the advisories of a list that carry no sprint id
Global(recommendations) ==
  SelectSeq(recommendations, LAMBDA r : r.sprintId = Undefined)

\* the item is a feature without board placement whose total points, per its
\* complexity mode, exceed 100
LargeUnplannedFeature(e) ==
  /\ e.type = "feature"
  /\ \A k \in 1..Len(positions) : positions[k].estimationId # e.id
  /\ getFeatureTotalPoints(e) > 100

\* the dependencies with at least one endpoint without board placement
HalfPlanned ==
  {i \in 1..Len(dependencies) :
     \E id \in {dependencies[i].sourceId, dependencies[i].targetId} :
       \A k \in 1..Len(positions) : positions[k].estimationId # id}

\* the aggregate Info of a list of advisories
AggregateInfos(recommendations) ==
  SelectSeq(recommendations,
            LAMBDA r : r.type = "info" /\ r.sprintId = Undefined
                       /\ r.estimationId = Undefined)

\* the feature part of C21: one Info per large unplanned feature, none for
\* any other item
FeatureInfoRule ==
  \A i \in 1..Len(estimations) :
    Len(SelectSeq(getPlanningRecommendations,
                  LAMBDA r : r.estimationId = estimations[i].id))
      = Indicator(LargeUnplannedFeature(estimations[i]))

\* the dependency part of C21: exactly one aggregate Info with the count when
\* the count is > 0, none otherwise, and it closes the list
DependencyInfoRule ==
  LET recs == getPlanningRecommendations
      aggregate == AggregateInfos(recs)
  IN  IF HalfPlanned = {} THEN aggregate = <<>>
      ELSE /\ Len(aggregate) = 1
           /\ aggregate[1].quoted = <<Cardinality(HalfPlanned)>>
           /\ recs[Len(recs)] = aggregate[1]

\* C21: after the sprint advisories, getPlanningRecommendations emits one
\* Info per unplanned feature whose total points per its complexity mode
\* exceed 100 and none for any other item, then exactly one aggregate Info
\* with the count of the dependencies having an endpoint without placement
\* when that count is > 0, and none when it is 0.
C21_GlobalAdvisories ==
  /\ getPlanningRecommendations
       = AllSprintRecommendations(1) \o Global(getPlanningRecommendations)
  /\ FeatureInfoRule
  /\ DependencyInfoRule

\* C21, dependency part and order only
C21_DependencyInfo ==
  /\ getPlanningRecommendations
       = AllSprintRecommendations(1) \o Global(getPlanningRecommendations)
  /\ DependencyInfoRule

\* C21, feature part for the features in feature-only mode
C21_FeatureOnlyInfo ==
  \A i \in 1..Len(estimations) :
    estimations[i].type = "feature" /\ estimations[i].complexityMode # "sum-us" =>
      Len(SelectSeq(getPlanningRecommendations,
                    LAMBDA r : r.estimationId = estimations[i].id))
        = Indicator(LargeUnplannedFeature(estimations[i]))

QueryOps == {"getPlanningRecommendations", "getRecommendations"}

C22_WitnessItem ==
  /\ last.op = "getRecommendations" /\ last.again
  /\ IsSumUsFeature(last.estimation)
  /\ Len(last.result) >= 2
  /\ last.result = getRecommendations(last.estimation)

\* the ids of the items of the store
StoreIds == {estimations[i].id : i \in 1..Len(estimations)}

\* C23: in every state reachable by item, placement and dependency
\* operations, deleteEstimation of a placed item included, isDependencyResolved
\* is false for a dependency one of whose endpoints is not in the item store.
C23_MissingItemUnresolved ==
  \A i \in 1..Len(dependencies) :
    dependencies[i].sourceId \notin StoreIds \/ dependencies[i].targetId \notin StoreIds
      => ~isDependencyResolved(dependencies[i])

\* C23 for the endpoints that never had a placement
C23_NeverPlacedUnresolved ==
  \A i \in 1..Len(dependencies) :
    ~Placed(dependencies[i].sourceId) \/ ~Placed(dependencies[i].targetId)
      => ~isDependencyResolved(dependencies[i])

\* the ratings the scorer is evaluated on: both ends and the middle of each
\* dimension
RatingGrid == {0, 50, 100}

\* the next value of the grid above a rating of the grid below 100
NextRating(rating) == IF rating = 0 THEN 50 ELSE 100

RatingTuples == RatingGrid \X RatingGrid \X RatingGrid \X RatingGrid \X RatingGrid

\* every weight of the stored table is positive
PositiveWeights ==
  /\ dimensionWeights.complexity > 0 /\ dimensionWeights.uncertainty > 0
  /\ dimensionWeights.risk > 0 /\ dimensionWeights.size > 0
  /\ dimensionWeights.effort > 0

\* C24: with a positive weight table, for all ratings in [0,100]^5 the score
\* lies in [1,377] and does not decrease when one rating is raised and the
\* other four are kept.
C24_MonotonicInRange ==
  PositiveWeights =>
    \A ratings \in RatingTuples :
      LET points == calculateComplexityPoints(RatingsRecord(ratings))
      IN  /\ points >= 10 /\ points <= 3770
          /\ \A d \in 1..5 :
               ratings[d] < 100 =>
                 points <= calculateComplexityPoints(
                             RatingsRecord([ratings EXCEPT ![d] = NextRating(ratings[d])]))

\* a stored positive table that is not the default one, under which raising
\* the uncertainty raises the score, raising the complexity from 0 to 50
\* leaves the rounded score of 1.0 as it is, and the two ends are 1 and 377
C24_Witness ==
  /\ PositiveWeights
  /\ dimensionWeights # getDefaultDimensionWeights
  /\ calculateComplexityPoints(RatingsRecord(<<0, 50, 0, 0, 0>>))
       < calculateComplexityPoints(RatingsRecord(<<0, 100, 0, 0, 0>>))
  /\ calculateComplexityPoints(RatingsRecord(<<50, 0, 0, 0, 0>>)) = 10
  /\ calculateComplexityPoints(RatingsRecord(<<0, 0, 0, 0, 0>>)) = 10
  /\ calculateComplexityPoints(RatingsRecord(<<100, 100, 100, 100, 100>>)) = 3770

\* the item of the scenario: complexity 100, the other four ratings 0
ComplexOnly == RatingsRecord(<<100, 0, 0, 0, 0>>)

\* C25: for every weight table the score of all-zero ratings is exactly 1.0
\* and the score of all-100 ratings exactly 377.0; with the default weights
\* a user story with complexity 100 and the other ratings 0 scores about 3.4
\* (within a tenth), has ceilinged points 4 and is classified S.
C25_EndsAndScenario ==
  /\ calculateComplexityPoints(RatingsRecord(<<0, 0, 0, 0, 0>>)) = 10
  /\ calculateComplexityPoints(RatingsRecord(<<100, 100, 100, 100, 100>>)) = 3770
  /\ (dimensionWeights = getDefaultDimensionWeights
      /\ tShirtSizesConfig = getDefaultTShirtSizesConfig) =>
       /\ calculateComplexityPoints(ComplexOnly) \in 33..35
       /\ getComplexityPointsCeil(ComplexOnly) = 4
       /\ getTShirtSizeByPoints(getComplexityPointsCeil(ComplexOnly) * 10,
                                "user-story").size = "S"

\* C25 for the weight tables whose total is not 0
C25_NonZeroTotal ==
  (dimensionWeights.complexity + dimensionWeights.uncertainty + dimensionWeights.risk
     + dimensionWeights.size + dimensionWeights.effort # 0) => C25_EndsAndScenario

\* the placements a list of placements holds for an item
PlacementsOf(placements, estimationId) ==
  SelectSeq(placements, LAMBDA p : p.estimationId = estimationId)

\* every placement is unassigned or in a sprint of the board
SprintIdsValid ==
  \A i \in 1..Len(positions) :
    positions[i].sprintId = Undefined \/ positions[i].sprintId \in SprintIdsOnBoard

\* a moveItem step leaves the item at the given coordinates with the sprint
\* it had (none for an item that was not placed)
MoveKeepsSprint ==
  \A e \in EstimationIdInputs, p \in PositionInputs :
    moveItem(e, p) =>
      LET before == PlacementsOf(positions, e)
          after == PlacementsOf(positions', e)
      IN  /\ Len(after) = 1
          /\ after[1].position = p
          /\ after[1].sprintId = IF before = <<>> THEN Undefined ELSE before[1].sprintId

\* an assignToSprint step with a sprint of the board leaves a placed item at
\* its coordinates, in that sprint
AssignKeepsCoordinates ==
  \A e \in EstimationIdInputs, s \in SprintIdsOnBoard :
    assignToSprint(e, s) =>
      LET before == PlacementsOf(positions, e)
          after == PlacementsOf(positions', e)
      IN  /\ Len(after) = 1
          /\ after[1].sprintId = s
          /\ before # <<>> => after[1].position = before[1].position

\* C26: referential integrity of sprint assignment: after any sequence of
\* createSprint, updateSprint, deleteSprint, setPosition, moveItem,
\* assignToSprint with the id of a sprint of the board, removeFromSprint and
\* removeFromBoard, every placement's sprintId is undefined or the id of a
\* sprint of the board; moveItem never changes an item's sprintId and
\* assignToSprint never changes the coordinates of a placed item.
C26_SprintIntegrity ==
  /\ []SprintIdsValid
  /\ [][MoveKeepsSprint /\ AssignKeepsCoordinates]_vars

\* a sprint was deleted, an item sits in the remaining sprint away from the
\* origin and another item is placed without a sprint
C26_Witness ==
  /\ ids.sprint = 2
  /\ Len(sprints) = 1
  /\ \E i, j \in 1..Len(positions) :
       /\ positions[i].sprintId = sprints[1].id
       /\ positions[i].position = [x |-> 40, y |-> 60]
       /\ positions[j].sprintId = Undefined

(***************************************************************************)
(* PlanningBoardComponent: the board with the dependency-creation flow.    *)
(***************************************************************************)
FlowIdInputs == {"e1", "e2", "e3"}
FlowCapacityInputs == {<<20>>}

\* startCreatingDependency(sourceId) followed by
\* onDependencyTargetSelected(targetId): the two cards are on the board when
\* the dependency is created; selecting the source itself cancels
createDependencyOnBoard(sourceId, targetId) ==
  /\ getPosition(sourceId) # <<>>
  /\ getPosition(targetId) # <<>>
  /\ IF sourceId = targetId
     THEN /\ last' = NoCall
          /\ UNCHANGED <<estimations, sprints, positions, dependencies, ids>>
          /\ SettingsUnchanged
          /\ FormUnchanged
     ELSE addDependency(sourceId, targetId, "depends-on")

NextBoardFlow ==
  \/ createSprint(DEFAULT_SPRINT)
  \/ \E id \in SprintIdsOnBoard, capacity \in FlowCapacityInputs : updateSprint(id, capacity)
  \/ \E id \in SprintIdsOnBoard : deleteSprint(id)
  \/ \E e \in FlowIdInputs, p \in PositionInputs : setPosition(e, p, Undefined)
  \/ \E e \in FlowIdInputs, p \in PositionInputs : moveItem(e, p)
  \/ \E e \in FlowIdInputs, s \in SprintIdsOnBoard : assignToSprint(e, s)
  \/ \E e \in FlowIdInputs : removeFromSprint(e)
  \/ \E e \in FlowIdInputs : removeFromBoard(e)
  \/ \E s, t \in FlowIdInputs : createDependencyOnBoard(s, t)
  \/ \E i \in 1..Len(dependencies) : removeDependency(dependencies[i].id)

SpecBoardFlow == InitPlanning /\ [][NextBoardFlow]_vars

\* every dependency links two distinct items that both have a placement
DependenciesPlaced ==
  \A i \in 1..Len(dependencies) :
    /\ dependencies[i].sourceId # dependencies[i].targetId
    /\ getPosition(dependencies[i].sourceId) # <<>>
    /\ getPosition(dependencies[i].targetId) # <<>>

\* a removeFromBoard(x) step removes the placement of x and the dependencies
\* that have x as an end, and keeps every other placement and dependency
RemoveFromBoardRule ==
  \A x \in FlowIdInputs :
    removeFromBoard(x) =>
      /\ PlacementsOf(positions', x) = <<>>
      /\ \A e \in FlowIdInputs \ {x} : PlacementsOf(positions', e) = PlacementsOf(positions, e)
      /\ Len(positions') = Len(positions) - Len(PlacementsOf(positions, x))
      /\ \A i \in 1..Len(dependencies') :
           dependencies'[i].sourceId # x /\ dependencies'[i].targetId # x
      /\ dependencies' = SelectSeq(dependencies, LAMBDA d : x \notin {d.sourceId, d.targetId})
      /\ sprints' = sprints

C27_WitnessRemoved ==
  /\ ids.dep = 1
  /\ dependencies = <<>>
  /\ getPosition("e1") = <<>>
  /\ getPosition("e2") # <<>>
  /\ getPosition("e3") # <<>>

\* the uuids of a list of stored items are pairwise distinct
DistinctUuids(list) == Cardinality(UuidsOf(list)) = Len(list)

\* C28: for every successful importFromJson call, added + updated is the
\* number of records of the imported array; if the uuids of the store were
\* pairwise distinct before the call they are pairwise distinct after it, and
\* the number of stored items grows by exactly `added`, also when the array
\* repeats a uuid or holds records without a uuid.
C28_ImportCounts ==
  ImportCalled =>
    /\ last.result.added + last.result.updated = Len(last.imported)
    /\ DistinctUuids(last.existing) =>
         /\ DistinctUuids(estimations)
         /\ Len(estimations) = Len(last.existing) + last.result.added

\* an import of two records carrying the same uuid, which no stored item
\* has: one added, one updated, one item more
C28_Witness ==
  /\ ImportCalled
  /\ last.imported = <<ImportedLegacy, ImportedLegacy>>
  /\ DistinctUuids(last.existing)
  /\ last.result = [added |-> 1, updated |-> 1]
  /\ Len(estimations) = Len(last.existing) + 1

\* an import of two records without a uuid: two added, two items more
C28_WitnessNoUuid ==
  /\ ImportCalled
  /\ last.imported = <<ImportedBare, ImportedBare>>
  /\ last.existing # <<>>
  /\ last.result.added = 2
  /\ Len(estimations) = Len(last.existing) + 2

(***************************************************************************)
(* EstimationService.importFromJson on any text.  The text is given by     *)
(* what JSON.parse makes of it: JsonInvalid for a text it rejects, a value  *)
(* that is not an array (null, a number, an object), or JsonArray of the   *)
(* elements, which are records of JSON values or null.                     *)
(***************************************************************************)
JsonInvalid == [t |-> "invalid"]
JsonNull == [t |-> "null"]
JsonObject == [t |-> "object"]
JsonBoolean(b) == [t |-> "boolean", v |-> b]
JsonArray(elements) == [t |-> "array", v |-> elements]

\* a record whose complexity is a boolean
ImportedBooleanRating ==
  [id |-> JsonAbsent, uuid |-> JsonString("x2"), name |-> JsonString("Audit"),
   type |-> JsonString("user-story"), parentFeatureId |-> JsonAbsent,
   complexityMode |-> JsonAbsent,
   complexity |-> JsonBoolean(TRUE), uncertainty |-> JsonNumber(10),
   risk |-> JsonNumber(10), size |-> JsonNumber(10), effort |-> JsonNumber(10)]

\* imported.map throws a TypeError on this element: e.uuid of null, or
\* value.toLowerCase() in migrateValue on a rating that is neither a number
\* nor a string
ConversionThrows(e) ==
  IF e = JsonNull THEN TRUE
  ELSE \E axis \in {"complexity", "uncertainty", "risk", "size", "effort"} :
         OrZero(e[axis]).t \notin {"number", "string"}

\* the try block of importFromJson throws: JSON.parse rejects the text, the
\* value is not an array, or the conversion of an element throws
ImportThrows(jsonContent) ==
  \/ jsonContent = JsonInvalid
  \/ jsonContent.t # "array"
  \/ /\ jsonContent.t = "array"
     /\ \E k \in 1..Len(jsonContent.v) : ConversionThrows(jsonContent.v[k])

\* mutant: an element whose conversion throws is skipped and the others are
\* merged, emitted and saved
FailedImportSkipsBad(jsonContent, existing) ==
  IF jsonContent.t # "array"
  THEN [merged |-> existing, emitted |-> <<>>, saved |-> <<>>]
  ELSE LET good == SelectSeq(jsonContent.v, LAMBDA e : ~ConversionThrows(e))
           merged == MergeImported(NewMap(<<>>, existing), validEstimations(good), 0, 0).merged
       IN  [merged |-> merged, emitted |-> <<merged>>, saved |-> <<merged>>]

\* what a throwing importFromJson leaves: the error is raised before
\* estimationsSubject.next and saveToStorage are reached
FailedImport(jsonContent, existing) ==
  [merged |-> existing, emitted |-> <<>>, saved |-> <<>>]

\* the texts importFromJson is called with here: texts that are no JSON or
\* no array, and arrays of up to two elements with and without an element
\* whose conversion throws, before or after an element that converts
TextInputs ==
  {JsonInvalid, JsonNull, JsonObject, JsonNumber(42), JsonArray(<<>>)}
    \cup {JsonArray(<<e>>) : e \in {JsonNull, ImportedBooleanRating, ImportedLegacy}}
    \cup {JsonArray(<<e, bad>>) : e \in {ImportedStory, ImportedLegacy},
                                  bad \in {JsonNull, ImportedBooleanRating}}
    \cup {JsonArray(<<bad, e>>) : e \in {ImportedStory, ImportedBare},
                                  bad \in {JsonNull, ImportedBooleanRating}}

\* importFromJson(jsonContent): a throwing call is recorded in last with the
\* store it found, the lists it emitted and the lists it saved
importFromJsonText(jsonContent) ==
  IF ImportThrows(jsonContent)
  THEN LET outcome == FailedImport(jsonContent, estimations)
       IN  /\ estimations' = outcome.merged
           /\ last' = [op |-> "importFromJson threw", jsonContent |-> jsonContent,
                       existing |-> estimations, emitted |-> outcome.emitted,
                       saved |-> outcome.saved]
           /\ UNCHANGED ids
           /\ BoardUnchanged
           /\ SettingsUnchanged
           /\ FormUnchanged
  ELSE importFromJson(jsonContent.v)

NextImportText ==
  \/ \E estimation \in EstimationInputs : createEstimation(estimation)
  \/ \E i \in 1..Len(estimations) : deleteEstimation(estimations[i].id)
  \/ \E jsonContent \in TextInputs : importFromJsonText(jsonContent)

SpecImportText == Init /\ [][NextImportText]_vars

ImportThrew == last.op = "importFromJson threw"

C29_WitnessNotArray ==
  /\ ImportThrew
  /\ last.jsonContent \in {JsonInvalid, JsonObject}
  /\ estimations # <<>>

(***************************************************************************)
(* EstimationFormComponent with its debounce timer, and the selection kept *)
(* by AppComponent.  form.estimation is the @Input estimation (length 0    *)
(* when none is selected): AppComponent.onSelectEstimation and             *)
(* onEstimationChanged store what the list and the form emit in            *)
(* selectedEstimation, which is bound to the input.  form.saveTimeout      *)
(* tells whether the timer set by onFieldChange is pending; 500 ms without *)
(* a change is the step saveTimeoutFires.  form.unsaved is a history of    *)
(* the edits: the form data after the last change made to each item and    *)
(* not yet written to that item.                                           *)
(***************************************************************************)
\* the estimation emitTemporaryEstimation emits
TempEstimation(estimation, formData) ==
  Estimation(IF estimation = <<>> THEN "temp" ELSE estimation[1].id,
             IF estimation = <<>> THEN "temp-uuid" ELSE estimation[1].uuid,
             IF formData.name = "" THEN "Nouvelle estimation" ELSE formData.name,
             formData.type,
             IF formData.parentFeatureId = "" THEN Undefined ELSE formData.parentFeatureId,
             IF formData.type = "feature" THEN formData.complexityMode ELSE Undefined,
             <<formData.complexity, formData.uncertainty, formData.risk,
               formData.size, formData.effort>>)

\* updateEstimation on a list of items
UpdatedEstimations(list, id, updates) ==
  [i \in 1..Len(list) |->
     IF list[i].id = id
     THEN Estimation(list[i].id, list[i].uuid, updates.name, updates.type,
                     updates.parentFeatureId, updates.complexityMode, updates.ratings)
     ELSE list[i]]

\* the changes made in the form: a slider, the name emptied, the name typed
FieldInputs == {[axis |-> "risk", value |-> 40]}
NameInputs == {"", "Edited"}
ConfigWeightsInputs ==
  {getDefaultDimensionWeights,
   [complexity |-> 10, uncertainty |-> 10, risk |-> 10, size |-> 10, effort |-> 10]}

\* the history of edits after a change made to the item `id`
Edited(unsaved, id, formData) ==
  {u \in unsaved : u.id # id} \cup {[id |-> id, formData |-> formData]}

\* the history of edits after `formData` was written to the item `id`
Written(unsaved, id, formData) ==
  {u \in unsaved : ~(u.id = id /\ u.formData = formData)}

\* the list emits a stored item, AppComponent.onSelectEstimation selects it
\* and ngOnChanges runs: another id than before re-initializes the form and
\* emits the temporary estimation, which becomes the selection
selectEstimation(curr) ==
  /\ LET prev == form.estimation
         formData == initializeForm(<<curr>>)
     IN  IF prev = <<>> \/ prev[1].id # curr.id
         THEN form' = [form EXCEPT !.formData = formData,
                                   !.estimation = <<TempEstimation(<<curr>>, formData)>>]
         ELSE form' = [form EXCEPT !.estimation = <<curr>>]
  /\ last' = NoCall
  /\ UNCHANGED <<estimations, ids>>
  /\ BoardUnchanged
  /\ SettingsUnchanged

\* onFieldChange after a field of the form opened on an item was changed
fieldChange(axis, value) ==
  /\ form.estimation # <<>>
  /\ LET formData == onFieldChange(form.formData, axis, value)
         temp == TempEstimation(form.estimation, formData)
     IN  form' = IF formData.name = ""
                 THEN [form EXCEPT !.formData = formData, !.estimation = <<temp>>]
                 ELSE [form EXCEPT !.formData = formData, !.estimation = <<temp>>,
                                   !.saveTimeout = TRUE,
                                   !.unsaved = Edited(@, temp.id, formData)]
  /\ last' = NoCall
  /\ UNCHANGED <<estimations, ids>>
  /\ BoardUnchanged
  /\ SettingsUnchanged

\* updateDimensionWeights emits config$; the subscriber of loadTailles
\* re-initializes the form from its estimation and emits the temporary one
configChanged(weights) ==
  /\ dimensionWeights' = weights
  /\ LET formData == initializeForm(form.estimation)
     IN  form' = [form EXCEPT !.formData = formData,
                              !.estimation = IF form.estimation = <<>> THEN <<>>
                                             ELSE <<TempEstimation(form.estimation, formData)>>]
  /\ last' = NoCall
  /\ UNCHANGED <<estimations, ids, tShirtSizesConfig>>
  /\ BoardUnchanged

\* the timer fires: saveEstimation with the form data and the estimation of
\* that moment; the updated item it emits becomes the selection
saveTimeoutFires ==
  /\ form.saveTimeout
  /\ LET formData == form.formData
         saves == formData.name # "" /\ form.estimation # <<>>
         id == IF form.estimation = <<>> THEN Undefined ELSE form.estimation[1].id
         merged == IF saves
                   THEN UpdatedEstimations(estimations, id, FormSaveData(formData))
                   ELSE estimations
         updated == SelectSeq(merged, LAMBDA e : e.id = id)
     IN  /\ estimations' = merged
         /\ form' = [form EXCEPT !.saveTimeout = FALSE,
                                 !.estimation = IF saves /\ updated # <<>>
                                                THEN <<updated[1]>> ELSE @,
                                 !.unsaved = IF saves THEN Written(@, id, formData) ELSE @]
         /\ last' = [op |-> "saveEstimation", saved |-> saves, id |-> id,
                     formData |-> formData]
  /\ UNCHANGED ids
  /\ BoardUnchanged
  /\ SettingsUnchanged

NextDebounce ==
  \/ \E i \in 1..Len(estimations) : selectEstimation(estimations[i])
  \/ \E f \in FieldInputs : fieldChange(f.axis, f.value)
  \/ \E name \in NameInputs : fieldChange("name", name)
  \/ \E weights \in ConfigWeightsInputs : configChanged(weights)
  \/ saveTimeoutFires

SpecDebounce == Init /\ [][NextDebounce]_vars

\* a timer that was set fires
SpecDebounceFair == SpecDebounce /\ WF_vars(saveTimeoutFires)

SaveRan == last.op = "saveEstimation"

\* once no timer is pending, every edit made with a non-empty name has been
\* written to the item it was made to
EditsPersisted == ~form.saveTimeout => form.unsaved = {}

\* a save writes the form data of the moment to the item of the form, and
\* none happens while the name is empty
SavesLatestValues ==
  SaveRan =>
    IF last.formData.name = "" THEN ~last.saved
    ELSE /\ last.saved
         /\ \E i \in 1..Len(estimations) :
              /\ estimations[i].id = last.id
              /\ initializeForm(<<estimations[i]>>) = last.formData

\* the store changes only when the timer fires, once for the burst of
\* changes that set it
OneSavePerBurst ==
  estimations' # estimations => form.saveTimeout /\ ~form'.saveTimeout

\* C30: debounced save in the estimation form: every field change made while
\* the name is non-empty is eventually persisted to the item that was being
\* edited; a burst of changes causes exactly one saveEstimation, after the
\* last change and with the latest form values; no edit is lost or written to
\* another item when another estimation is selected or the settings change
\* before the timer fires; no save happens while the name is empty.
C30_DebouncedSave ==
  /\ []EditsPersisted
  /\ (form.unsaved # {}) ~> (form.unsaved = {})
  /\ []SavesLatestValues
  /\ [][OneSavePerBurst]_vars

\* C30, the parts about what a save writes and when
C30_SaveRule == []SavesLatestValues /\ [][OneSavePerBurst]_vars

\* C30 for a settings change - the form is re-initialized from the temporary
\* estimation it emitted at the last change and keeps its named data
C30_ConfigChangeKeepsEdit ==
  [][(/\ dimensionWeights' # dimensionWeights
      /\ form.estimation = <<TempEstimation(form.estimation, form.formData)>>
      /\ form.formData.name # "")
     => form'.formData = form.formData]_vars

\* the edit of e1 was dropped: e2 was selected before the timer fired, the
\* timer has fired and e1 is stored as it was
C30_EditDropped ==
  /\ ~form.saveTimeout
  /\ form.estimation # <<>> /\ form.estimation[1].id = "e2"
  /\ form.unsaved = {[id |-> "e1", formData |-> onFieldChange(initializeForm(<<StoredStory>>), "risk", 40)]}
  /\ estimations = StoredEstimations
  /\ SaveRan /\ last.id = "e2"

====
